---- MODULE Spec2Model ----
\* Inscription envelope codec and extractor of ord (src/inscription.rs).
\* Scripts are byte sequences (0..255); the script builder, the instruction
\* decoder, the envelope encoder, the envelope parser and the transaction
\* extractor are operators computed as the code computes them.  The state
\* machine drives them the way the callers do: builder calls produce a
\* script, the script is placed in a witness, the witness is parsed, the
\* witness becomes a transaction input, the transaction is extracted.
EXTENDS Integers, Sequences, FiniteSets, TLC

VARIABLES
  input,      \* the transaction to build: one witness plan per input
  idx,        \* 1-based position of the input under construction
  ci,         \* number of builder calls already applied for this input
  builder,    \* script::Builder: the script bytes built so far
  witness,    \* Witness of the input under construction
  parsed,     \* InscriptionParser::parse(witness), once computed
  results,    \* parse results of the inputs already added to tx
  tx,         \* tx.input[*].witness, in input order
  extracted,  \* Inscription::from_transaction(tx), once computed
  pc,
  scan,       \* InscriptionParser::parse_inscriptions run one call at a time
  args,       \* arguments of Inscribe::create_inscription_transactions
  planned,       \* its locals and its result
  rpc,        \* node, wallet and index operations issued by Inscribe::run, in order
  run,        \* locals of Inscribe::run
  ipc         \* position in the inscribe command

cvars == <<input, idx, ci, builder, witness, parsed, results, tx, extracted, pc, scan>>
ivars == <<args, planned, rpc, run, ipc>>
vars == <<cvars, ivars>>

-----------------------------------------------------------------------------
\* Bounds of the explored inputs.

\* Bodies span up to MaxChunks full 520-byte pushes plus one byte.
MaxChunks == 2
\* Noise instructions placed before / after an envelope.
MaxPre == 2
MaxPost == 1
\* Tagged fields of a hand-built envelope.
MaxFields == 2
\* Inputs of a transaction.
MaxInputs == 2

-----------------------------------------------------------------------------
\* Wire constants.

OP_FALSE == 0
OP_PUSHBYTES_1 == 1
OP_PUSHDATA1 == 76
OP_PUSHDATA2 == 77
OP_PUSHDATA4 == 78
OP_IF == 99
OP_ENDIF == 104
OP_CHECKSIG == 172
TAPROOT_ANNEX_PREFIX == 80
ChunkSize == 520

PROTOCOL_ID == <<111, 114, 100>>
BODY_TAG == <<>>
CONTENT_TYPE_TAG == <<1>>
\* Mutant of CURSED_TAG: an odd tag.
CURSED_TAG_ODD == <<65>>

CURSED_TAG == <<66>>
CursedValue == <<99, 117, 114, 115, 101, 100>>

-----------------------------------------------------------------------------
\* Option<Vec<u8>> and Inscription.

\* Binds an intermediate value: With(e, LAMBDA x : body) is `let x = e; body`.
With(value, Then(_)) == Then(value)

None == [some |-> FALSE, v |-> <<>>]
Some(bytes) == [some |-> TRUE, v |-> bytes]

Inscription(content_type, body) == [body |-> body, content_type |-> content_type]

-----------------------------------------------------------------------------
\* script::Builder and Script::instructions.

push_opcode(b, op) == Append(b, op)

PushPrefix(n) ==
  IF n < OP_PUSHDATA1 THEN <<n>>
  ELSE IF n < 256 THEN <<OP_PUSHDATA1, n>>
  ELSE IF n < 65536 THEN <<OP_PUSHDATA2, n % 256, n \div 256>>
  ELSE <<OP_PUSHDATA4, n % 256, (n \div 256) % 256,
         (n \div 65536) % 256, (n \div 16777216) % 256>>

push_slice(b, data) == b \o PushPrefix(Len(data)) \o data

PushBytes(bytes) == [kind |-> "push", op |-> 0, bytes |-> bytes]
Op(code) == [kind |-> "op", op |-> code, bytes |-> <<>>]
ScriptError == [kind |-> "err", op |-> 0, bytes |-> <<>>]

\* Width of the length field that follows a push opcode.
LenWidth(b) ==
  IF b < OP_PUSHDATA1 THEN 0
  ELSE IF b = OP_PUSHDATA1 THEN 1
  ELSE IF b = OP_PUSHDATA2 THEN 2
  ELSE 4

RECURSIVE ReadUint(_, _, _)
ReadUint(data, from, width) ==
  IF width = 0 THEN 0
  ELSE data[from] + 256 * ReadUint(data, from + 1, width - 1)

\* The items the Instructions iterator yields for the bytes data[i..]: decoded
\* instructions, ended by one ScriptError item when a push runs past the end
\* of the script (the iterator yields the error once and is then exhausted).
RECURSIVE InstructionsFrom(_, _)
InstructionsFrom(data, i) ==
  IF i > Len(data) THEN <<>>
  ELSE LET b == data[i]
           left == Len(data) - i + 1
           w == LenWidth(b)
       IN IF b > OP_PUSHDATA4
          THEN <<Op(b)>> \o InstructionsFrom(data, i + 1)
          ELSE IF left < 1 + w
          THEN <<ScriptError>>
          ELSE LET n == IF w = 0 THEN b ELSE ReadUint(data, i + 1, w)
               IN IF left < n + 1 + w
                  THEN <<ScriptError>>
                  ELSE <<PushBytes(SubSeq(data, i + 1 + w, i + w + n))>>
                       \o InstructionsFrom(data, i + 1 + w + n)

Instructions(script) == InstructionsFrom(script, 1)

INSCRIPTION_ENVELOPE_HEADER == <<PushBytes(<<>>), Op(OP_IF), PushBytes(PROTOCOL_ID)>>

-----------------------------------------------------------------------------
\* Inscription::append_reveal_script_to_builder.

\* Mutant of chunks: body.chunks_exact(size), which drops a short last chunk.
RECURSIVE chunks_exact(_, _)
chunks_exact(body, size) ==
  IF Len(body) < size THEN <<>>
  ELSE <<SubSeq(body, 1, size)>> \o chunks_exact(SubSeq(body, size + 1, Len(body)), size)

RECURSIVE chunks(_, _)
chunks(body, size) ==
  IF Len(body) = 0 THEN <<>>
  ELSE IF Len(body) <= size THEN <<body>>
  ELSE <<SubSeq(body, 1, size)>> \o chunks(SubSeq(body, size + 1, Len(body)), size)

RECURSIVE PushAll(_, _)
PushAll(b, slices) ==
  IF slices = <<>> THEN b
  ELSE PushAll(push_slice(b, Head(slices)), Tail(slices))

\* Mutant of append_reveal_script_to_builder: the body field is written only
\* for a non-empty body.
append_reveal_script_skip_empty_body(self, b, cursed) ==
  With(push_slice(push_opcode(push_opcode(b, OP_FALSE), OP_IF), PROTOCOL_ID), LAMBDA b1 :
    With(IF self.content_type.some
         THEN push_slice(push_slice(b1, CONTENT_TYPE_TAG), self.content_type.v)
         ELSE b1, LAMBDA b2 :
      With(IF cursed
           THEN push_slice(push_slice(b2, CURSED_TAG), CursedValue)
           ELSE b2, LAMBDA b3 :
        push_opcode(IF self.body.some /\ Len(self.body.v) > 0
                    THEN PushAll(push_slice(b3, BODY_TAG), chunks(self.body.v, ChunkSize))
                    ELSE b3,
                    OP_ENDIF))))

\* Mutant of append_reveal_script_to_builder: an empty body is written as one
\* empty data push after the body tag.
append_reveal_script_pad_empty_body(self, b, cursed) ==
  With(push_slice(push_opcode(push_opcode(b, OP_FALSE), OP_IF), PROTOCOL_ID), LAMBDA b1 :
    With(IF self.content_type.some
         THEN push_slice(push_slice(b1, CONTENT_TYPE_TAG), self.content_type.v)
         ELSE b1, LAMBDA b2 :
      With(IF cursed
           THEN push_slice(push_slice(b2, CURSED_TAG), CursedValue)
           ELSE b2, LAMBDA b3 :
        push_opcode(IF self.body.some
                    THEN PushAll(push_slice(b3, BODY_TAG),
                                 IF Len(self.body.v) = 0 THEN << <<>> >>
                                 ELSE chunks(self.body.v, ChunkSize))
                    ELSE b3,
                    OP_ENDIF))))

append_reveal_script_to_builder(self, b, cursed) ==
  With(push_slice(push_opcode(push_opcode(b, OP_FALSE), OP_IF), PROTOCOL_ID), LAMBDA b1 :
    With(IF self.content_type.some
         THEN push_slice(push_slice(b1, CONTENT_TYPE_TAG), self.content_type.v)
         ELSE b1, LAMBDA b2 :
      With(IF cursed
           THEN push_slice(push_slice(b2, CURSED_TAG), CursedValue)
           ELSE b2, LAMBDA b3 :
        push_opcode(IF self.body.some
                    THEN PushAll(push_slice(b3, BODY_TAG), chunks(self.body.v, ChunkSize))
                    ELSE b3,
                    OP_ENDIF))))

-----------------------------------------------------------------------------
\* InscriptionParser.  The parser state is the peekable instruction stream:
\* the decoded items `ins` and the number `pos` of items already consumed.
\* Every operator returns the Result (`err` is "Ok" for Ok, else the
\* InscriptionError variant) together with the new position.

\* Mutant of advance: an instruction is returned and stays in the stream.
advance_peek(ins, pos) ==
  IF pos >= Len(ins)
  THEN [err |-> "NoInscription", val |-> ScriptError, pos |-> pos]
  ELSE IF ins[pos + 1].kind = "err"
  THEN [err |-> "Script", val |-> ScriptError, pos |-> pos + 1]
  ELSE [err |-> "Ok", val |-> ins[pos + 1], pos |-> pos]

\* self.instructions.next(): None -> NoInscription, Some(Err) -> Script.
advance(ins, pos) ==
  IF pos >= Len(ins)
  THEN [err |-> "NoInscription", val |-> ScriptError, pos |-> pos]
  ELSE IF ins[pos + 1].kind = "err"
  THEN [err |-> "Script", val |-> ScriptError, pos |-> pos + 1]
  ELSE [err |-> "Ok", val |-> ins[pos + 1], pos |-> pos + 1]

RECURSIVE match_instructions(_, _, _)
match_instructions(ins, pos, instructions) ==
  IF instructions = <<>> THEN [err |-> "Ok", val |-> TRUE, pos |-> pos]
  ELSE With(advance(ins, pos), LAMBDA a :
         IF a.err # "Ok" THEN [err |-> a.err, val |-> FALSE, pos |-> a.pos]
         ELSE IF a.val # Head(instructions)
         THEN [err |-> "Ok", val |-> FALSE, pos |-> a.pos]
         ELSE match_instructions(ins, a.pos, Tail(instructions)))

RECURSIVE advance_into_inscription_envelope(_, _)
advance_into_inscription_envelope(ins, pos) ==
  With(match_instructions(ins, pos, INSCRIPTION_ENVELOPE_HEADER), LAMBDA m :
    IF m.err # "Ok" THEN [err |-> m.err, pos |-> m.pos]
    ELSE IF m.val THEN [err |-> "Ok", pos |-> m.pos]
    ELSE advance_into_inscription_envelope(ins, m.pos))

expect_push(ins, pos) ==
  With(advance(ins, pos), LAMBDA a :
    IF a.err # "Ok" THEN [err |-> a.err, val |-> <<>>, pos |-> a.pos]
    ELSE IF a.val.kind = "push" THEN [err |-> "Ok", val |-> a.val.bytes, pos |-> a.pos]
    ELSE [err |-> "InvalidInscription", val |-> <<>>, pos |-> a.pos])

\* peek() does not consume: a peeked decode error stays in the stream.
accept(ins, pos, instruction) ==
  IF pos >= Len(ins) THEN [err |-> "Ok", val |-> FALSE, pos |-> pos]
  ELSE IF ins[pos + 1].kind = "err" THEN [err |-> "Script", val |-> FALSE, pos |-> pos]
  ELSE IF ins[pos + 1] = instruction
  THEN With(advance(ins, pos), LAMBDA a : [err |-> a.err, val |-> TRUE, pos |-> a.pos])
  ELSE [err |-> "Ok", val |-> FALSE, pos |-> pos]

\* BTreeMap<&[u8], Vec<u8>>: a function from the tags seen to their values.
NoFields == [t \in {} |-> <<>>]

\* Mutant of insert: a tag is recorded only with a non-empty value, so a
\* repeated tag whose first value was empty goes unnoticed.
insert_non_empty(fields, tag, value) ==
  IF value = <<>> /\ tag # BODY_TAG THEN fields
  ELSE [t \in (DOMAIN fields) \cup {tag} |-> IF t = tag THEN value ELSE fields[t]]

insert(fields, tag, value) ==
  [t \in (DOMAIN fields) \cup {tag} |-> IF t = tag THEN value ELSE fields[t]]
remove(fields, tag) ==
  IF tag \in DOMAIN fields THEN Some(fields[tag]) ELSE None

\* while !self.accept(OP_ENDIF)? { body.extend_from_slice(self.expect_push()?) }
RECURSIVE ReadBody(_, _, _)
ReadBody(ins, pos, body) ==
  With(accept(ins, pos, Op(OP_ENDIF)), LAMBDA a :
    IF a.err # "Ok" THEN [err |-> a.err, val |-> body, pos |-> a.pos]
    ELSE IF a.val THEN [err |-> "Ok", val |-> body, pos |-> a.pos]
    ELSE With(expect_push(ins, a.pos), LAMBDA p :
           IF p.err # "Ok" THEN [err |-> p.err, val |-> body, pos |-> p.pos]
           ELSE ReadBody(ins, p.pos, body \o p.val)))

\* The field loop of parse_one_inscription, up to its break.
RECURSIVE ReadFields(_, _, _)
ReadFields(ins, pos, fields) ==
  With(advance(ins, pos), LAMBDA a :
    IF a.err # "Ok" THEN [err |-> a.err, val |-> fields, pos |-> a.pos]
    ELSE IF a.val.kind = "push" /\ a.val.bytes = BODY_TAG
    THEN With(ReadBody(ins, a.pos, <<>>), LAMBDA b :
           IF b.err # "Ok" THEN [err |-> b.err, val |-> fields, pos |-> b.pos]
           ELSE [err |-> "Ok", val |-> insert(fields, BODY_TAG, b.val), pos |-> b.pos])
    ELSE IF a.val.kind = "push"
    THEN IF a.val.bytes \in DOMAIN fields
         THEN [err |-> "InvalidInscription", val |-> fields, pos |-> a.pos]
         ELSE With(expect_push(ins, a.pos), LAMBDA p :
                IF p.err # "Ok" THEN [err |-> p.err, val |-> fields, pos |-> p.pos]
                ELSE ReadFields(ins, p.pos, insert(fields, a.val.bytes, p.val)))
    ELSE IF a.val = Op(OP_ENDIF) THEN [err |-> "Ok", val |-> fields, pos |-> a.pos]
    ELSE [err |-> "InvalidInscription", val |-> fields, pos |-> a.pos])

\* Mutant of UnrecognizedEven: the parity test is inverted.
UnrecognizedOdd(fields) ==
  \E tag \in (DOMAIN fields) \ {BODY_TAG, CONTENT_TYPE_TAG} :
    Len(tag) > 0 /\ tag[1] % 2 = 1

\* for tag in fields.keys() { if let Some(lsb) = tag.first() { if lsb % 2 == 0 ..
UnrecognizedEven(fields) ==
  \E tag \in (DOMAIN fields) \ {BODY_TAG, CONTENT_TYPE_TAG} :
    Len(tag) > 0 /\ tag[1] % 2 = 0

NoValue == Inscription(None, None)

parse_one_inscription(ins, pos) ==
  With(advance_into_inscription_envelope(ins, pos), LAMBDA e :
    IF e.err # "Ok" THEN [err |-> e.err, val |-> NoValue, pos |-> e.pos]
    ELSE With(ReadFields(ins, e.pos, NoFields), LAMBDA f :
           IF f.err # "Ok" THEN [err |-> f.err, val |-> NoValue, pos |-> f.pos]
           ELSE IF UnrecognizedEven(f.val)
           THEN [err |-> "UnrecognizedEvenField", val |-> NoValue, pos |-> f.pos]
           ELSE [err |-> "Ok", pos |-> f.pos,
                 val |-> Inscription(remove(f.val, CONTENT_TYPE_TAG),
                                     remove(f.val, BODY_TAG))]))

\* Mutant of parse_inscriptions: the end-of-stream sentinel is pushed to the
\* results before the loop is left.
RECURSIVE parse_inscriptions_keep_sentinel(_, _)
parse_inscriptions_keep_sentinel(ins, pos) ==
  With(parse_one_inscription(ins, pos), LAMBDA current :
    IF current.err = "NoInscription"
    THEN <<[err |-> current.err, val |-> current.val]>>
    ELSE <<[err |-> current.err, val |-> current.val]>>
         \o parse_inscriptions_keep_sentinel(ins, current.pos))

\* Vec<Result<Inscription>>: every result up to the first NoInscription.
RECURSIVE parse_inscriptions(_, _)
parse_inscriptions(ins, pos) ==
  With(parse_one_inscription(ins, pos), LAMBDA current :
    IF current.err = "NoInscription" THEN <<>>
    ELSE <<[err |-> current.err, val |-> current.val]>>
         \o parse_inscriptions(ins, current.pos))

\* Mutant of collect: the values before the first Err are returned with it.
RECURSIVE collect_keep_values(_)
collect_keep_values(rs) ==
  IF rs = <<>> THEN [err |-> "Ok", val |-> <<>>]
  ELSE IF Head(rs).err # "Ok" THEN [err |-> Head(rs).err, val |-> <<>>]
  ELSE With(collect_keep_values(Tail(rs)), LAMBDA rest :
         [err |-> rest.err, val |-> <<Head(rs).val>> \o rest.val])

\* .into_iter().collect::<Result<Vec<_>>>(): the first Err, else every value.
RECURSIVE collect(_)
collect(rs) ==
  IF rs = <<>> THEN [err |-> "Ok", val |-> <<>>]
  ELSE IF Head(rs).err # "Ok" THEN [err |-> Head(rs).err, val |-> <<>>]
  ELSE With(collect(Tail(rs)), LAMBDA rest :
         IF rest.err # "Ok" THEN rest
         ELSE [err |-> "Ok", val |-> <<Head(rs).val>> \o rest.val])

Annex(w) == Len(w) > 0 /\ Len(w[Len(w)]) > 0 /\ w[Len(w)][1] = TAPROOT_ANNEX_PREFIX

\* 1-based position of the witness element that parse hands to the envelope
\* parser: .nth(len - 1) with an annex, .nth(len - 2) without.
ScriptElement(w) == IF Annex(w) THEN (Len(w) - 1) + 1 ELSE (Len(w) - 2) + 1

\* Mutant of parse: the two-element witness ending in an annex is not
\* recognised as a key-path spend.
parse_no_annex_check(w) ==
  IF Len(w) = 0 THEN [err |-> "EmptyWitness", val |-> <<>>, element |-> 0]
  ELSE IF Len(w) = 1 THEN [err |-> "KeyPathSpend", val |-> <<>>, element |-> 0]
  ELSE With(ScriptElement(w), LAMBDA n :
         With(collect(parse_inscriptions(Instructions(w[n]), 0)), LAMBDA r :
           [err |-> r.err, val |-> r.val, element |-> n]))

\* InscriptionParser::parse.  `element` is the position of the element parsed
\* as a script, 0 when parse returns before selecting one.
parse(w) ==
  IF Len(w) = 0 THEN [err |-> "EmptyWitness", val |-> <<>>, element |-> 0]
  ELSE IF Len(w) = 1 THEN [err |-> "KeyPathSpend", val |-> <<>>, element |-> 0]
  ELSE IF Len(w) = 2 /\ Annex(w)
  THEN [err |-> "KeyPathSpend", val |-> <<>>, element |-> 0]
  ELSE With(ScriptElement(w), LAMBDA n :
         With(collect(parse_inscriptions(Instructions(w[n]), 0)), LAMBDA r :
           [err |-> r.err, val |-> r.val, element |-> n]))

\* Inscription::from_transaction over tx.input[*].witness.
\* Mutant of Enumerate: index and offset are stored in each other's field.
RECURSIVE EnumerateSwapped(_, _, _)
EnumerateSwapped(inscriptions, index, offset) ==
  IF inscriptions = <<>> THEN <<>>
  ELSE <<[inscription |-> Head(inscriptions),
          tx_in_index |-> offset, tx_in_offset |-> index]>>
       \o EnumerateSwapped(Tail(inscriptions), index, offset + 1)

RECURSIVE Enumerate(_, _, _)
Enumerate(inscriptions, index, offset) ==
  IF inscriptions = <<>> THEN <<>>
  ELSE <<[inscription |-> Head(inscriptions),
          tx_in_index |-> index, tx_in_offset |-> offset]>>
       \o Enumerate(Tail(inscriptions), index, offset + 1)

\* Mutant of FromInputs: the first input that fails to parse ends the scan
\* (`?` in place of `else { continue }`).
RECURSIVE FromInputsUntilError(_, _)
FromInputsUntilError(witnesses, index) ==
  IF index >= Len(witnesses) THEN <<>>
  ELSE With(parse(witnesses[index + 1]), LAMBDA r :
         IF r.err = "Ok"
         THEN Enumerate(r.val, index, 0) \o FromInputsUntilError(witnesses, index + 1)
         ELSE <<>>)

RECURSIVE FromInputs(_, _)
FromInputs(witnesses, index) ==
  IF index >= Len(witnesses) THEN <<>>
  ELSE With(parse(witnesses[index + 1]), LAMBDA r :
         IF r.err = "Ok" THEN Enumerate(r.val, index, 0) ELSE <<>>)
       \o FromInputs(witnesses, index + 1)

from_transaction(witnesses) == FromInputs(witnesses, 0)

-----
\* Inputs.  A witness plan describes how one input's witness is produced: the
\* builder calls that make its script, and the elements put around the script.

CallOp(op) ==
  [k |-> "push_opcode", op |-> op, data |-> <<>>, inscription |-> NoValue, cursed |-> FALSE]
CallSlice(data) ==
  [k |-> "push_slice", op |-> 0, data |-> data, inscription |-> NoValue, cursed |-> FALSE]
CallReveal(e) ==
  [k |-> "append_reveal_script", op |-> 0, data |-> <<>>,
   inscription |-> e.inscription, cursed |-> e.cursed]

Envelope(inscription, cursed) == [inscription |-> inscription, cursed |-> cursed]

\* kind "reveal": pre, then one append_reveal_script per entry of envelopes, then post.
RevealPlan(pre, envelopes, post, shape) ==
  [kind |-> "reveal", pre |-> pre, envelopes |-> envelopes, post |-> post,
   fields |-> <<>>, body |-> None, shape |-> shape]

\* kind "raw": OP_FALSE OP_IF PUSH("ord"), a tag push and a value push per
\* entry of fields, the body tag and the body pushes when body is present,
\* OP_ENDIF; all made with push_opcode / push_slice.
RawPlan(fields, body, shape) ==
  [kind |-> "raw", pre |-> <<>>, envelopes |-> <<>>, post |-> <<>>,
   fields |-> fields, body |-> body, shape |-> shape]

RECURSIVE RevealCalls(_)
RevealCalls(envelopes) ==
  IF envelopes = <<>> THEN <<>>
  ELSE <<CallReveal(Head(envelopes))>> \o RevealCalls(Tail(envelopes))

RECURSIVE FieldCalls(_)
FieldCalls(fields) ==
  IF fields = <<>> THEN <<>>
  ELSE <<CallSlice(Head(fields)[1]), CallSlice(Head(fields)[2])>> \o FieldCalls(Tail(fields))

RECURSIVE SliceCalls(_)
SliceCalls(pushes) ==
  IF pushes = <<>> THEN <<>>
  ELSE <<CallSlice(Head(pushes))>> \o SliceCalls(Tail(pushes))

CallsOf(plan) ==
  IF plan.kind = "reveal"
  THEN plan.pre \o RevealCalls(plan.envelopes) \o plan.post
  ELSE <<CallOp(OP_FALSE), CallOp(OP_IF), CallSlice(PROTOCOL_ID)>>
       \o FieldCalls(plan.fields)
       \o (IF plan.body.some THEN <<CallSlice(BODY_TAG)>> \o SliceCalls(plan.body.v) ELSE <<>>)
       \o <<CallOp(OP_ENDIF)>>

ApplyCall(b, call) ==
  IF call.k = "push_opcode" THEN push_opcode(b, call.op)
  ELSE IF call.k = "push_slice" THEN push_slice(b, call.data)
  ELSE append_reveal_script_to_builder(call.inscription, b, call.cursed)

RECURSIVE Build(_, _)
Build(b, calls) ==
  IF calls = <<>> THEN b ELSE Build(ApplyCall(b, Head(calls)), Tail(calls))

\* Placeholder witness elements: a 64-byte schnorr signature, a 33-byte
\* control block (leaf version 0xc0), a 32-byte x-only public key, an annex.
Signature == [i \in 1..64 |-> 48]
ControlBlock == <<192>> \o [i \in 1..32 |-> 2]
PublicKey == [i \in 1..32 |-> 3]
AnnexElement == <<TAPROOT_ANNEX_PREFIX, 0>>

Shapes ==
  {"empty", "key_path", "key_path_annex", "single_script", "script_annex",
   "to_witness", "script_path", "script_path_annex"}

WitnessOf(shape, script) ==
  CASE shape = "empty" -> <<>>
    [] shape = "key_path" -> <<Signature>>
    [] shape = "key_path_annex" -> <<Signature, AnnexElement>>
    [] shape = "single_script" -> <<script>>
    [] shape = "script_annex" -> <<script, AnnexElement>>
    [] shape = "to_witness" -> <<script, <<>> >>
    [] shape = "script_path" -> <<Signature, script, ControlBlock>>
    [] OTHER -> <<Signature, script, ControlBlock, AnnexElement>>

\* Bodies: length L, bytes that differ from chunk to chunk.
Body(L) == [i \in 1..L |-> i % 251]
BodyLens == {0, 1} \cup {k * ChunkSize + d : k \in 1..MaxChunks, d \in {-1, 0, 1}}

ContentTypes == {None, Some(<<>>), Some(<<102, 111, 111>>)}
CodecInscriptions ==
  {Inscription(ct, b) : ct \in ContentTypes,
                        b \in {None} \cup {Some(Body(L)) : L \in BodyLens}}
SmallInscriptions ==
  {Inscription(None, None), Inscription(None, Some(<<>>)),
   Inscription(Some(<<116>>), Some(<<98, 98>>))}

RevealPrefix == <<CallSlice(PublicKey), CallOp(OP_CHECKSIG)>>

CodecPlans ==
  {RevealPlan(pre, <<Envelope(i, c)>>, <<>>, shape) :
     pre \in {<<>>, RevealPrefix}, i \in CodecInscriptions, c \in BOOLEAN,
     shape \in {"to_witness", "script_path"}}

RECURSIVE SeqsUpTo(_, _)
SeqsUpTo(S, n) ==
  IF n = 0 THEN {<<>>}
  ELSE LET shorter == SeqsUpTo(S, n - 1)
       IN shorter \cup {Append(q, x) : q \in shorter, x \in S}

NoiseCalls == {CallOp(OP_FALSE), CallOp(OP_IF), CallSlice(PROTOCOL_ID), CallOp(OP_CHECKSIG)}

NoisePlans ==
  {RevealPlan(pre, <<Envelope(i, FALSE)>>, post, "to_witness") :
     pre \in SeqsUpTo(NoiseCalls, MaxPre), post \in SeqsUpTo(NoiseCalls, MaxPost),
     i \in SmallInscriptions}

Tags == {<<1>>, <<2>>, <<3>>, <<2, 3>>, <<3, 2>>}
Values == {<<>>, <<97>>}
RawBodies == {None, Some(<<>>), Some(<<(<<98>>), (<<99, 100>>)>>)}

RawPlans ==
  {RawPlan(f, b, "to_witness") :
     f \in SeqsUpTo(Tags \X Values, MaxFields), b \in RawBodies}

ShapePlans ==
  {RevealPlan(<<>>, e, <<>>, shape) :
     e \in {<<>>} \cup {<<Envelope(i, FALSE)>> : i \in SmallInscriptions},
     shape \in Shapes}

ParsePlans == NoisePlans \cup RawPlans \cup ShapePlans

\* Witnesses of a transaction's inputs: zero, one and two envelopes, and one
\* witness per way an input can fail to parse.
DuplicateField == <<(<<(<<1>>), (<<97>>)>>), (<<(<<1>>), (<<97>>)>>)>>
InscriptionA == Inscription(Some(<<102, 111, 111>>), Some(<<1, 1>>))
InscriptionB == Inscription(Some(<<98, 97, 114>>), Some(<<>>))
TxPlans ==
  {RevealPlan(<<>>, <<Envelope(InscriptionA, FALSE)>>, <<>>, "to_witness"),
   RevealPlan(RevealPrefix, <<Envelope(InscriptionB, FALSE), Envelope(InscriptionA, FALSE)>>,
              <<>>, "script_path"),
   RevealPlan(RevealPrefix, <<>>, <<>>, "to_witness"),
   RevealPlan(<<>>, <<>>, <<>>, "empty"),
   RevealPlan(<<>>, <<Envelope(InscriptionA, FALSE)>>, <<>>, "single_script"),
   RevealPlan(<<>>, <<Envelope(InscriptionA, FALSE)>>, <<CallOp(OP_PUSHBYTES_1)>>, "to_witness"),
   RevealPlan(<<>>, <<Envelope(InscriptionB, TRUE)>>, <<>>, "to_witness"),
   RawPlan(DuplicateField, None, "to_witness")}

SeqsFromTo(S, lo, hi) == SeqsUpTo(S, hi) \ SeqsUpTo(S, lo - 1)

\* Scripts that end inside an envelope or never open one: every proper prefix
\* of the builder calls of a hand-built envelope (a cut inside the header
\* leaves no header), the envelope with another protocol id, and the envelope
\* without its OP_FALSE; each after zero or more complete envelopes.
WrongMagic == <<102, 111, 111>>
Prefixes(calls) == {SubSeq(calls, 1, n) : n \in 0..(Len(calls) - 1)}
WellFormedRaw ==
  {p \in RawPlans : \A a, b \in 1..Len(p.fields) : a # b => p.fields[a][1] # p.fields[b][1]}
TruncatedTails == UNION {Prefixes(CallsOf(p)) : p \in WellFormedRaw}
HeaderlessTails ==
  {<<CallOp(OP_IF), CallSlice(PROTOCOL_ID), CallOp(OP_ENDIF)>>,
   <<CallOp(OP_FALSE), CallOp(OP_IF), CallSlice(WrongMagic), CallOp(OP_ENDIF)>>,
   <<CallOp(OP_FALSE), CallOp(OP_IF), CallSlice(WrongMagic),
     CallSlice(CONTENT_TYPE_TAG), CallSlice(<<97>>), CallSlice(BODY_TAG), CallSlice(<<98>>),
     CallOp(OP_ENDIF)>>,
   <<CallOp(OP_CHECKSIG)>>}
StreamPlans ==
  {RevealPlan(pre, e, post, "to_witness") :
     pre \in {<<>>, RevealPrefix},
     e \in {<<>>, <<Envelope(InscriptionA, FALSE)>>,
            <<Envelope(InscriptionB, FALSE), Envelope(InscriptionA, FALSE)>>},
     post \in TruncatedTails \cup HeaderlessTails}

\* Scripts of several envelopes of which some fail: a hand-built envelope with
\* a duplicate field (InvalidInscription) before or after envelopes made by
\* append_reveal_script, of which one may carry the even tag
\* (UnrecognizedEvenField), and a push that runs past the end of the script
\* (Script).
DuplicateEnvelope == CallsOf(RawPlan(DuplicateField, None, "to_witness"))
DanglingPush == <<CallOp(OP_PUSHBYTES_1)>>
MixedPlans ==
  {RevealPlan(pre, e, post, shape) :
     pre \in {<<>>, DuplicateEnvelope},
     e \in {<<Envelope(InscriptionA, FALSE)>>,
            <<Envelope(InscriptionA, FALSE), Envelope(InscriptionB, TRUE)>>,
            <<Envelope(InscriptionB, TRUE), Envelope(InscriptionA, FALSE)>>},
     post \in {<<>>, DuplicateEnvelope, DanglingPush},
     shape \in {"to_witness", "script_path"}}

\* Streams for the loop of parse_inscriptions: the above, and the header
\* repeated before an envelope and inside one.
Header == <<CallOp(OP_FALSE), CallOp(OP_IF), CallSlice(PROTOCOL_ID)>>
RepeatedHeaderPlans ==
  {RevealPlan(pre, <<Envelope(InscriptionA, FALSE)>>, post, "script_path") :
     pre \in {Header, Header \o Header, <<CallOp(OP_FALSE)>> \o Header},
     post \in {<<>>, Header, Header \o Header \o <<CallOp(OP_ENDIF)>>}}
ScanPlans == StreamPlans \cup MixedPlans \cup RepeatedHeaderPlans

\* A transaction of one such input, alone or beside an input that parses.
GoodPlan == RevealPlan(<<>>, <<Envelope(InscriptionB, FALSE)>>, <<>>, "script_path")
MixedInputs ==
  {<<p>> : p \in MixedPlans} \cup {<<p, GoodPlan>> : p \in MixedPlans}
    \cup {<<GoodPlan, p>> : p \in MixedPlans}

-----------------------------------------------------------------------------
\* The inscribe command (src/subcommand/wallet/inscribe.rs): values.
\*
\* Payloads are given by the lengths of their fields: the planner uses a
\* payload only through its reveal script, and a script only through its
\* length (weights, fees) and its identity (taproot leaf).  Outpoints,
\* keys and addresses are symbolic; amounts and weights are integers.

MAX_STANDARD_TX_WEIGHT == 400000
SCHNORR_SIGNATURE_SIZE == 64
DEFAULT_TARGET_POSTAGE == 10000
DUST_RELAY_TX_FEE == 3000

NoLen == [some |-> FALSE, n |-> 0]
SomeLen(n) == [some |-> TRUE, n |-> n]
Payload(content_type, body) == [content_type |-> content_type, body |-> body]

OutPoint(txid, vout) == [txid |-> txid, vout |-> vout]
SatPoint(outpoint, offset) == [outpoint |-> outpoint, offset |-> offset]
NoSatPoint == [some |-> FALSE, v |-> SatPoint(OutPoint(0, 0), 0)]
SomeSatPoint(s) == [some |-> TRUE, v |-> s]
NoOutPoint == [some |-> FALSE, v |-> OutPoint(0, 0)]
SomeOutPoint(o) == [some |-> TRUE, v |-> o]
\* OutPoint::null(), the placeholder input of the fee estimate.
NullOutPoint == OutPoint(-1, -1)

\* Addresses / script_pubkeys: the output type and what the output commits to.
P2WPKH(n) == [kind |-> "p2wpkh", key |-> <<n>>]
P2PKH(n) == [kind |-> "p2pkh", key |-> <<n>>]
P2TR(output_key) == [kind |-> "p2tr", key |-> output_key]

\* Length in bytes of a script_pubkey.
ScriptPubkeyLen(script_pubkey) ==
  CASE script_pubkey.kind = "p2wpkh" -> 22
    [] script_pubkey.kind = "p2pkh" -> 25
    [] OTHER -> 34

is_witness_program(script_pubkey) == script_pubkey.kind \in {"p2wpkh", "p2tr"}

\* Length of the compact-size encoding of n.
VarIntLen(n) ==
  IF n < 253 THEN 1 ELSE IF n < 65536 THEN 3 ELSE 5

\* Script::dust_value: 3 sat per byte of the output plus the input spending it.
dust_value(script_pubkey) ==
  (DUST_RELAY_TX_FEE \div 1000)
    * ((IF is_witness_program(script_pubkey)
        THEN 32 + 4 + 1 + (107 \div 4) + 4
        ELSE 32 + 4 + 1 + 107 + 4)
       + 8 + VarIntLen(ScriptPubkeyLen(script_pubkey)) + ScriptPubkeyLen(script_pubkey))

\* Length of what push_slice appends for n bytes of data.
PushLen(n) == Len(PushPrefix(n)) + n

\* Length of the pushes of body.chunks(520) for a body of n bytes.
ChunksLen(n) ==
  (n \div ChunkSize) * PushLen(ChunkSize)
    + (IF n % ChunkSize = 0 THEN 0 ELSE PushLen(n % ChunkSize))

\* Length of what append_reveal_script_to_builder appends.
EnvelopeLen(payload, cursed) ==
  1 + 1 + PushLen(Len(PROTOCOL_ID))
    + (IF payload.content_type.some
       THEN PushLen(Len(CONTENT_TYPE_TAG)) + PushLen(payload.content_type.n) ELSE 0)
    + (IF cursed THEN PushLen(Len(CURSED_TAG)) + PushLen(Len(CursedValue)) ELSE 0)
    + (IF payload.body.some THEN PushLen(Len(BODY_TAG)) + ChunksLen(payload.body.n) ELSE 0)
    + 1

\* The reveal script PUSH(public_key) OP_CHECKSIG <envelope>: its taproot leaf
\* is identified by the key and the payload, its length is computed.
RevealScript(public_key, payload, cursed66) ==
  [public_key |-> public_key, payload |-> payload, cursed66 |-> cursed66,
   len |-> PushLen(Len(PublicKey)) + 1 + EnvelopeLen(payload, cursed66)]

\* TapLeafHash::from_script / merkle_root of the single-leaf tree.
merkle_root(reveal_script) ==
  <<reveal_script.public_key,
    IF reveal_script.payload.content_type.some THEN reveal_script.payload.content_type.n ELSE -1,
    IF reveal_script.payload.body.some THEN reveal_script.payload.body.n ELSE -1,
    IF reveal_script.cursed66 THEN 1 ELSE 0>>

\* taproot_spend_info.output_key(): the internal key tweaked by the merkle root.
output_key(public_key, reveal_script) == <<public_key>> \o merkle_root(reveal_script)

\* Key pairs are identified by their secret; the x-only public key of a key
\* pair is identified by the key pair.
KeyPair(n) == [secret |-> n]
XOnlyPublicKey(key_pair) == [xonly_of |-> key_pair.secret]

\* key_pair.tap_tweak(merkle_root): the recovery key pair.
tap_tweak(key_pair, root) == [key_pair |-> key_pair, tweak |-> root]

\* recovery_key_pair.to_inner().x_only_public_key(): the public key of the
\* tweaked secret is the internal public key tweaked by the same root.
x_only_public_key(tweaked) == <<XOnlyPublicKey(tweaked.key_pair)>> \o tweaked.tweak

\* Witness elements, by what they are and their length.
SignatureElement(len) == [is |-> "signature", len |-> len]
ScriptElementOf(reveal_script) ==
  [is |-> "script", len |-> reveal_script.len, script |-> reveal_script]
ControlBlockElement == [is |-> "control_block", len |-> Len(ControlBlock)]

TxIn(previous_output, stack) == [previous_output |-> previous_output, witness |-> stack]
TxOut(script_pubkey, value) == [script_pubkey |-> script_pubkey, value |-> value]
Transaction(inputs, outputs) == [input |-> inputs, output |-> outputs]
NoTransaction == Transaction(<<>>, <<>>)

RECURSIVE Sum(_)
Sum(seq) == IF seq = <<>> THEN 0 ELSE Head(seq) + Sum(Tail(seq))
SumOf(seq, F(_)) == Sum([k \in 1..Len(seq) |-> F(seq[k])])

\* Witness::serialized_len
WitnessLen(stack) ==
  VarIntLen(Len(stack)) + SumOf(stack, LAMBDA el : VarIntLen(el.len) + el.len)

\* Transaction::weight: four units per byte outside the witnesses, one per
\* witness byte; the marker, the flag and an empty witness per unsigned input
\* are counted once some input has a witness.
weight(transaction) ==
  4 * (4 + VarIntLen(Len(transaction.input)) + 41 * Len(transaction.input)
         + VarIntLen(Len(transaction.output))
         + SumOf(transaction.output, LAMBDA o :
             8 + VarIntLen(ScriptPubkeyLen(o.script_pubkey)) + ScriptPubkeyLen(o.script_pubkey))
         + 4)
    + (IF \A i \in 1..Len(transaction.input) : transaction.input[i].witness = <<>>
       THEN 0
       ELSE 2 + SumOf(transaction.input, LAMBDA txin : WitnessLen(txin.witness)))

\* Weight::to_vbytes_ceil
to_vbytes_ceil(wu) == (wu + 3) \div 4

\* FeeRate: sat/vB as the fraction num/den.
FeeRate(num, den) == [num |-> num, den |-> den]

\* FeeRate::fee: the rate times the virtual size, rounded to the nearest sat.
fee(fee_rate, wu) ==
  (2 * fee_rate.num * to_vbytes_ceil(wu) + fee_rate.den) \div (2 * fee_rate.den)

-----------------------------------------------------------------------------
\* Inscribe::create_inscription_transactions: the planner's steps as operators.
\* BTreeMaps are sequences in key order: `utxos` holds [outpoint, value]
\* entries, `inscriptions` the satpoints of the prior inscriptions.

Ok(v) == [err |-> "", v |-> v]
Err(message, v) == [err |-> message, v |-> v]

NoCardinalUtxos == "wallet contains no cardinal utxos"
SatAlreadyInscribed == "sat already inscribed"
UtxoAlreadyInscribed == "utxo already inscribed"
FeeUnderflow == "reveal transaction output value insufficient to pay transaction fee"
OutputDust == "reveal transaction output would be dust"
RevealOverweight == "reveal transaction weight greater than MAX_STANDARD_TX_WEIGHT"
BuilderError == "transaction builder error"
Panic == "panic"

\* 1-based position of the first element of seq that satisfies P, 0 if none.
Position(seq, P(_)) ==
  IF \A k \in 1..Len(seq) : ~P(seq[k]) THEN 0
  ELSE CHOOSE k \in 1..Len(seq) : P(seq[k]) /\ \A j \in 1..(k - 1) : ~P(seq[j])

inscribed_utxos(inscriptions) == {inscriptions[k].outpoint : k \in 1..Len(inscriptions)}

\* Mutant of select_satpoint: the cursed companion is not excluded.
select_satpoint_any_uninscribed(satpoint, inscriptions, utxos, cursed_outpoint) ==
  IF satpoint.some THEN Ok(satpoint.v)
  ELSE With(Position(utxos, LAMBDA u :
              u.outpoint \notin inscribed_utxos(inscriptions)), LAMBDA k :
         IF k = 0 THEN Err(NoCardinalUtxos, NoSatPoint.v)
         ELSE Ok(SatPoint(utxos[k].outpoint, 0)))

\* The satpoint to inscribe: the one supplied, else offset 0 of the first utxo
\* that carries no prior inscription and is not the cursed companion.
select_satpoint(satpoint, inscriptions, utxos, cursed_outpoint) ==
  IF satpoint.some THEN Ok(satpoint.v)
  ELSE With(Position(utxos, LAMBDA u :
              /\ u.outpoint \notin inscribed_utxos(inscriptions)
              /\ (~cursed_outpoint.some \/ u.outpoint # cursed_outpoint.v)), LAMBDA k :
         IF k = 0 THEN Err(NoCardinalUtxos, NoSatPoint.v)
         ELSE Ok(SatPoint(utxos[k].outpoint, 0)))

\* Mutant of reinscription_gate: either flag excuses both cases.
RECURSIVE reinscription_gate_any_flag(_, _, _, _)
reinscription_gate_any_flag(inscriptions, satpoint, allow_reinscribe, ignore_utxo_inscriptions) ==
  IF inscriptions = <<>> THEN ""
  ELSE IF Head(inscriptions) = satpoint /\ ~(allow_reinscribe \/ ignore_utxo_inscriptions)
  THEN SatAlreadyInscribed
  ELSE IF Head(inscriptions) # satpoint /\ Head(inscriptions).outpoint = satpoint.outpoint
          /\ ~(allow_reinscribe \/ ignore_utxo_inscriptions)
  THEN UtxoAlreadyInscribed
  ELSE reinscription_gate_any_flag(Tail(inscriptions), satpoint, allow_reinscribe,
                                   ignore_utxo_inscriptions)

\* The loop over the prior inscriptions: "" when it completes, else the error
\* it returns.
RECURSIVE reinscription_gate(_, _, _, _)
reinscription_gate(inscriptions, satpoint, allow_reinscribe, ignore_utxo_inscriptions) ==
  IF inscriptions = <<>> THEN ""
  ELSE IF Head(inscriptions) = satpoint /\ ~allow_reinscribe
  THEN SatAlreadyInscribed
  ELSE IF Head(inscriptions) # satpoint /\ Head(inscriptions).outpoint = satpoint.outpoint
          /\ ~ignore_utxo_inscriptions
  THEN UtxoAlreadyInscribed
  ELSE reinscription_gate(Tail(inscriptions), satpoint, allow_reinscribe,
                          ignore_utxo_inscriptions)

\* UntweakedKeyPair::new for payload i (1-based): a fresh key pair per
\* payload, the first one for every payload under single_key.
KeyPairOf(i, single_key) == IF single_key THEN KeyPair(1) ELSE KeyPair(i)

\* The witness used to estimate the fee: signature, script and control block
\* on the script-path input, one signature-sized element on any other input.
DummyWitness(current_index, reveal_vout_postage, script) ==
  IF current_index = reveal_vout_postage
  THEN <<SignatureElement(SCHNORR_SIGNATURE_SIZE), ScriptElementOf(script), ControlBlockElement>>
  ELSE <<SignatureElement(SCHNORR_SIGNATURE_SIZE)>>

\* Mutant of build_reveal_transaction: the dummy witness is added only to an
\* input that spends a known output.
build_reveal_transaction_known_inputs(fee_rate, reveal_vout_postage, inputs, outputs, script) ==
  [tx |-> Transaction([k \in 1..Len(inputs) |-> TxIn(inputs[k], <<>>)], outputs),
   fee |-> fee(fee_rate,
               weight(Transaction(
                 [k \in 1..Len(inputs) |->
                    TxIn(inputs[k],
                         IF inputs[k] = NullOutPoint THEN <<>>
                         ELSE DummyWitness(k - 1, reveal_vout_postage, script))],
                 outputs)) + 1)]

\* Inscribe::build_reveal_transaction: the unsigned reveal and its fee, the
\* fee rate applied to the weight with dummy witnesses plus one unit.
build_reveal_transaction(fee_rate, reveal_vout_postage, inputs, outputs, script) ==
  [tx |-> Transaction([k \in 1..Len(inputs) |-> TxIn(inputs[k], <<>>)], outputs),
   fee |-> fee(fee_rate,
               weight(Transaction(
                 [k \in 1..Len(inputs) |->
                    TxIn(inputs[k], DummyWitness(k - 1, reveal_vout_postage, script))],
                 outputs)) + 1)]

\* The outputs of reveal i (1-based): the destination output carrying `value`,
\* preceded by the cursed companion's output when there is a companion.
RevealOutputs(c, i, value) ==
  (IF c.cursed_outpoint.some
   THEN <<TxOut(IF c.cursed_destination.some THEN c.cursed_destination.v
                ELSE c.cursed_txout.script_pubkey,
                c.cursed_txout.value)>>
   ELSE <<>>)
  \o <<TxOut(c.destinations[((i - 1) % Len(c.destinations)) + 1], value)>>

RevealInputs(c, outpoint) ==
  (IF c.cursed_outpoint.some THEN <<c.cursed_outpoint.v>> ELSE <<>>) \o <<outpoint>>

reveal_vout_postage(c) == IF c.cursed_outpoint.some THEN 1 ELSE 0

\* The reveal script of payload i.
RevealScriptOf(c, i) ==
  RevealScript(XOnlyPublicKey(KeyPairOf(i, c.single_key)), c.inscription[i], c.cursed66)

\* commit_tx_addresses[i]
CommitAddress(c, i) ==
  P2TR(output_key(XOnlyPublicKey(KeyPairOf(i, c.single_key)), RevealScriptOf(c, i)))

\* Mutant of EstimateRevealFee: the postage is left out of the requirement.
EstimateRevealFee_without_postage(c, i) ==
  build_reveal_transaction(c.reveal_fee_rate, reveal_vout_postage(c),
                           RevealInputs(c, NullOutPoint), RevealOutputs(c, i, 0),
                           RevealScriptOf(c, i)).fee

\* reveal_fees[i]: the estimated fee of reveal i plus the postage.
EstimateRevealFee(c, i) ==
  build_reveal_transaction(c.reveal_fee_rate, reveal_vout_postage(c),
                           RevealInputs(c, NullOutPoint), RevealOutputs(c, i, 0),
                           RevealScriptOf(c, i)).fee
    + c.postage

-----------------------------------------------------------------------------
\* TransactionBuilder::build_transaction_with_values, the commit builder the
\* planner delegates to: the satpoint's utxo is the first input, further
\* uninscribed utxos are added while the outputs and the fee are not covered;
\* the outputs are an alignment output when the satpoint is not at offset 0,
\* one output per commit address in order, and a change output when the
\* change is not dust; the fee is the commit fee rate applied to the weight
\* with one signature per input.

\* unsigned_commit_tx.txid()
CommitTxid == 0

ValueOf(utxos, outpoint) ==
  utxos[Position(utxos, LAMBDA u : u.outpoint = outpoint)].value

\* utxos.clone() without the cursed companion.
utxos_clone(c) ==
  SelectSeq(c.utxos, LAMBDA u : ~c.cursed_outpoint.some \/ u.outpoint # c.cursed_outpoint.v)

\* How the builder funds the payload outputs: "exact" is the requested value;
\* "fee_only" and "nothing" leave out the postage, or everything.
FundingModes == {"exact", "fee_only", "nothing"}
Funded(c, value, mode) ==
  CASE mode = "exact" -> value
    [] mode = "fee_only" -> value - c.postage
    [] OTHER -> 0

CommitCandidates(c, satpoint) ==
  SelectSeq(utxos_clone(c), LAMBDA u : u.outpoint = satpoint.outpoint)
  \o SelectSeq(utxos_clone(c), LAMBDA u :
       u.outpoint # satpoint.outpoint /\ u.outpoint \notin inscribed_utxos(c.inscriptions))

CommitInputs(candidates, n) == [k \in 1..n |-> TxIn(candidates[k].outpoint, <<>>)]

CommitFee(fee_rate, n, outputs) ==
  fee(fee_rate,
      weight(Transaction([k \in 1..n |->
                            TxIn(NullOutPoint, <<SignatureElement(SCHNORR_SIGNATURE_SIZE)>>)],
                         outputs)))

CommitBase(c, satpoint, values, mode) ==
  (IF satpoint.offset > 0
   THEN <<TxOut(IF c.alignment.some THEN c.alignment.v ELSE c.change[1], satpoint.offset)>>
   ELSE <<>>)
  \o [i \in 1..Len(values) |-> TxOut(CommitAddress(c, i), Funded(c, values[i], mode))]

InputValue(candidates, n) == SumOf(SubSeq(candidates, 1, n), LAMBDA u : u.value)
OutputValue(outputs) == SumOf(outputs, LAMBDA o : o.value)

\* What is left for a change output with n inputs.
ChangeValue(c, candidates, n, base) ==
  InputValue(candidates, n) - OutputValue(base)
    - CommitFee(c.commit_fee_rate, n, Append(base, TxOut(c.change[2], 0)))

\* What is left over the fee without a change output; it is added to the
\* last output.
ExcessValue(c, candidates, n, base) ==
  InputValue(candidates, n) - OutputValue(base) - CommitFee(c.commit_fee_rate, n, base)

RECURSIVE BuildWith(_, _, _, _, _)
BuildWith(c, candidates, n, maxn, base) ==
  IF n > maxn THEN Err(BuilderError, NoTransaction)
  ELSE IF ChangeValue(c, candidates, n, base) >= dust_value(c.change[2])
  THEN Ok(Transaction(CommitInputs(candidates, n),
                      Append(base, TxOut(c.change[2], ChangeValue(c, candidates, n, base)))))
  ELSE IF ExcessValue(c, candidates, n, base) >= 0
  THEN Ok(Transaction(CommitInputs(candidates, n),
                      [base EXCEPT ![Len(base)].value =
                                     @ + ExcessValue(c, candidates, n, base)]))
  ELSE BuildWith(c, candidates, n + 1, maxn, base)

build_transaction_with_values(c, satpoint, values, mode) ==
  With(CommitCandidates(c, satpoint), LAMBDA candidates :
    IF candidates = <<>> \/ candidates[1].outpoint # satpoint.outpoint
       \/ satpoint.offset >= candidates[1].value
    THEN Err(BuilderError, NoTransaction)
    ELSE BuildWith(c, candidates, 1,
                   IF c.max_inputs.some /\ c.max_inputs.v < Len(candidates)
                   THEN c.max_inputs.v ELSE Len(candidates),
                   CommitBase(c, satpoint, values, mode)))

-----------------------------------------------------------------------------
\* The reveals, rebuilt against the commit.

\* 0-based index of the first commit output paying commit_tx_addresses[0];
\* -1 when there is none (the expect panics).
first_vout(c, commit) ==
  Position(commit.output, LAMBDA o : o.script_pubkey = CommitAddress(c, 1)) - 1

\* Mutant of RevealVout: every reveal spends the first inscription output.
RevealVout_first(first, i) == first

\* vout of the commit output that reveal i (1-based) spends.
RevealVout(first, i) == (i - 1) + first

\* The signature pushed to the witness: with a companion the hash type byte
\* of AllPlusAnyoneCanPay is appended.
RevealSignature(c) ==
  SignatureElement(IF c.cursed_outpoint.some
                   THEN SCHNORR_SIGNATURE_SIZE + 1 ELSE SCHNORR_SIGNATURE_SIZE)

NoRecoveryKeyPair == tap_tweak(KeyPair(0), <<>>)

Reveal(err, reveal_tx, fee_paid, recovery_key_pair, reveal_weight) ==
  [err |-> err, tx |-> reveal_tx, fee |-> fee_paid, recovery_key_pair |-> recovery_key_pair,
   weight |-> reveal_weight]

\* Mutant of SignedReveal: the control block is not pushed to the witness.
SignedReveal_without_control_block(c, i, r) ==
  [r.tx EXCEPT !.output[reveal_vout_postage(c) + 1].value = @ - r.fee,
               !.input[reveal_vout_postage(c) + 1].witness =
                 <<RevealSignature(c), ScriptElementOf(RevealScriptOf(c, i))>>]

\* Mutant of SignedReveal: the fee is not deducted from the postage output.
SignedReveal_fee_not_deducted(c, i, r) ==
  [r.tx EXCEPT !.input[reveal_vout_postage(c) + 1].witness =
                 <<RevealSignature(c), ScriptElementOf(RevealScriptOf(c, i)),
                   ControlBlockElement>>]

\* The reveal with the fee deducted from the postage output and the witness
\* [signature, reveal_script, control_block] on the script-path input.
SignedReveal(c, i, r) ==
  [r.tx EXCEPT !.output[reveal_vout_postage(c) + 1].value = @ - r.fee,
               !.input[reveal_vout_postage(c) + 1].witness =
                 <<RevealSignature(c), ScriptElementOf(RevealScriptOf(c, i)),
                   ControlBlockElement>>]

\* Mutant of WeightCheck: a reveal of exactly the limit is rejected too.
WeightCheck_inclusive(no_limit, reveal_weight) ==
  IF ~no_limit /\ reveal_weight >= MAX_STANDARD_TX_WEIGHT THEN RevealOverweight ELSE ""

\* The error of the weight check, "" when it passes.
WeightCheck(no_limit, reveal_weight) ==
  IF ~no_limit /\ reveal_weight > MAX_STANDARD_TX_WEIGHT THEN RevealOverweight ELSE ""

\* Mutant of DustCheck: a value one below the threshold passes.
DustCheck_off_by_one(value, script_pubkey) ==
  IF value < dust_value(script_pubkey) - 1 THEN OutputDust ELSE ""

\* The error of the dust check, "" when it passes.
DustCheck(value, script_pubkey) ==
  IF value < dust_value(script_pubkey) THEN OutputDust ELSE ""

\* One iteration of the loop that rebuilds the reveals: reveal i (1-based).
remake_reveal(c, commit, first, i) ==
  IF RevealVout(first, i) < 0 \/ RevealVout(first, i) >= Len(commit.output)
  THEN Reveal(Panic, NoTransaction, 0, NoRecoveryKeyPair, 0)
  ELSE With(build_reveal_transaction(
              c.reveal_fee_rate, reveal_vout_postage(c),
              RevealInputs(c, OutPoint(CommitTxid, RevealVout(first, i))),
              RevealOutputs(c, i, commit.output[RevealVout(first, i) + 1].value),
              RevealScriptOf(c, i)), LAMBDA r :
    With(r.tx.output[reveal_vout_postage(c) + 1], LAMBDA postage_output :
      IF postage_output.value < r.fee
      THEN Reveal(FeeUnderflow, NoTransaction, r.fee, NoRecoveryKeyPair, 0)
      ELSE IF DustCheck(postage_output.value - r.fee, postage_output.script_pubkey) # ""
      THEN Reveal(OutputDust, NoTransaction, r.fee, NoRecoveryKeyPair, 0)
      ELSE With(tap_tweak(KeyPairOf(i, c.single_key), merkle_root(RevealScriptOf(c, i))),
                LAMBDA recovery_key_pair :
        IF P2TR(x_only_public_key(recovery_key_pair)) # CommitAddress(c, i)
        THEN Reveal(Panic, NoTransaction, r.fee, NoRecoveryKeyPair, 0)
        ELSE With(SignedReveal(c, i, r), LAMBDA reveal_tx :
               Reveal(WeightCheck(c.no_limit, weight(reveal_tx)), reveal_tx, r.fee,
                      recovery_key_pair, weight(reveal_tx))))))

-----------------------------------------------------------------------------
\* The bytes of a reveal: what the planner measures by length, written out.

\* TapSighashType::AllPlusAnyoneCanPay as u8
AllPlusAnyoneCanPay == 129

\* Payload bytes.  A content type of n bytes is filled with bytes that read as
\* an envelope when taken for opcodes; a body of n bytes is Body(n).
EnvelopeLike == <<OP_FALSE, OP_IF, 3, 111, 114, 100, OP_ENDIF>>
ContentType(n) == [k \in 1..n |-> EnvelopeLike[((k - 1) % Len(EnvelopeLike)) + 1]]
InscriptionOf(payload) ==
  Inscription(IF payload.content_type.some THEN Some(ContentType(payload.content_type.n))
              ELSE None,
              IF payload.body.some THEN Some(Body(payload.body.n)) ELSE None)

\* inscription.append_reveal_script(ScriptBuf::builder()
\*   .push_slice(public_key.serialize()).push_opcode(OP_CHECKSIG), cursed66)
append_reveal_script(reveal_script) ==
  append_reveal_script_to_builder(InscriptionOf(reveal_script.payload),
                                  push_opcode(push_slice(<<>>, PublicKey), OP_CHECKSIG),
                                  reveal_script.cursed66)

\* What witness.push appends for an element: the signature followed by the
\* hash type byte when it has one, the script, the serialized control block
\* (leaf version 0xc0 with the parity of the output key in its lowest bit).
witness_push(el, parity) ==
  CASE el.is = "signature" ->
         Signature \o [k \in 1..(el.len - SCHNORR_SIGNATURE_SIZE) |-> AllPlusAnyoneCanPay]
    [] el.is = "script" -> append_reveal_script(el.script)
    [] el.is = "control_block" -> <<ControlBlock[1] + parity>> \o Tail(ControlBlock)
    [] OTHER -> [k \in 1..el.len |-> 2]

\* tx.input[*].witness of a planned transaction, as byte strings.
Witnesses(transaction, parity) ==
  [k \in 1..Len(transaction.input) |->
     [e \in 1..Len(transaction.input[k].witness) |->
        witness_push(transaction.input[k].witness[e], parity)]]

-----------------------------------------------------------------------------
\* Inputs of the planner.

\* Payloads of a batch, utxos of the wallet.
MaxPayloads == 2
MaxUtxos == 2

Call(satpoint, inscription, inscriptions, utxos, destinations, alignment,
     cursed_destination, cursed_outpoint, cursed_txout, commit_fee_rate, reveal_fee_rate,
     max_inputs, no_limit, postage, cursed66, allow_reinscribe, ignore_utxo_inscriptions,
     single_key, caller) ==
  [satpoint |-> satpoint, inscription |-> inscription, inscriptions |-> inscriptions,
   utxos |-> utxos, change |-> <<P2WPKH(1), P2WPKH(2)>>, destinations |-> destinations,
   alignment |-> alignment, cursed_destination |-> cursed_destination,
   cursed_outpoint |-> cursed_outpoint, cursed_txout |-> cursed_txout,
   commit_fee_rate |-> commit_fee_rate, reveal_fee_rate |-> reveal_fee_rate,
   max_inputs |-> max_inputs, no_limit |-> no_limit, postage |-> postage,
   cursed66 |-> cursed66, allow_reinscribe |-> allow_reinscribe,
   ignore_utxo_inscriptions |-> ignore_utxo_inscriptions, single_key |-> single_key,
   caller |-> caller]

NoAddress == [some |-> FALSE, v |-> P2WPKH(0)]
SomeAddress(a) == [some |-> TRUE, v |-> a]
NoMaxInputs == [some |-> FALSE, v |-> 0]
NoTxOut == TxOut(P2WPKH(0), 0)

\* tests: outpoint(n), recipient(), inscription("text/plain", "ord")
outpoint(n) == OutPoint(n, 0)
recipient == P2WPKH(3)
TextPlainOrd == Payload(SomeLen(10), SomeLen(3))
Utxo(o, value) == [outpoint |-> o, value |-> value]
WalletValue == 2 * DEFAULT_TARGET_POSTAGE

\* The wallet: n utxos of 20 000 sat.
Wallet(n) == [k \in 1..n |-> Utxo(outpoint(k), WalletValue)]

\* Sorted subsequences of a sequence.
RECURSIVE SubSeqs(_)
SubSeqs(seq) ==
  IF seq = <<>> THEN {<<>>}
  ELSE LET rest == SubSeqs(Tail(seq))
       IN rest \cup {<<Head(seq)>> \o r : r \in rest}

\* Prior inscriptions on the first two utxos, at offset 0 and further in.
PriorSatPoints ==
  <<SatPoint(outpoint(1), 0), SatPoint(outpoint(1), 5), SatPoint(outpoint(2), 0)>>

CompanionChoices(n) == {NoOutPoint} \cup {SomeOutPoint(outpoint(k)) : k \in 1..n}
CompanionTxOut(companion) ==
  IF companion.some THEN TxOut(P2TR(<<XOnlyPublicKey(KeyPair(0))>>), WalletValue) ELSE NoTxOut

\* Satpoint selection and reinscription gate.
GateCalls ==
  {Call(satpoint, <<TextPlainOrd>>, inscriptions, Wallet(n), <<recipient>>, NoAddress,
        NoAddress, companion, CompanionTxOut(companion), FeeRate(1, 1), FeeRate(1, 1),
        NoMaxInputs, FALSE, DEFAULT_TARGET_POSTAGE, FALSE, allow_reinscribe,
        ignore_utxo_inscriptions, FALSE, "test") :
     satpoint \in {NoSatPoint, SomeSatPoint(SatPoint(outpoint(1), 0)),
                   SomeSatPoint(SatPoint(outpoint(1), 5)),
                   SomeSatPoint(SatPoint(outpoint(2), 0))},
     inscriptions \in SubSeqs(PriorSatPoints),
     n \in 1..MaxUtxos,
     companion \in CompanionChoices(2),
     allow_reinscribe \in BOOLEAN, ignore_utxo_inscriptions \in BOOLEAN}

\* Batches of payloads.
SmallPayloads ==
  {TextPlainOrd, Payload(NoLen, NoLen), Payload(SomeLen(10), SomeLen(ChunkSize + 1))}

\* Postages around the dust thresholds of the destination scripts.
Destinations == {recipient, P2PKH(4), P2TR(<<XOnlyPublicKey(KeyPair(0))>>)}
Postages ==
  {DEFAULT_TARGET_POSTAGE, 0}
    \cup {dust_value(d) + k : d \in Destinations, k \in {-1, 0}}
FeeRates == {FeeRate(1, 1), FeeRate(2, 1), FeeRate(33, 10)}

\* Fees, dust and linkage.
FeeCalls ==
  {Call(satpoint, inscription, <<>>, Wallet(2), <<destination>>, NoAddress,
        NoAddress, companion, CompanionTxOut(companion), fee_rate, fee_rate,
        NoMaxInputs, FALSE, postage, FALSE, FALSE, FALSE, single_key, "test") :
     satpoint \in {NoSatPoint, SomeSatPoint(SatPoint(outpoint(1), 5))},
     inscription \in SeqsFromTo(SmallPayloads, 1, MaxPayloads),
     destination \in Destinations,
     companion \in {NoOutPoint, SomeOutPoint(outpoint(2))},
     fee_rate \in FeeRates, postage \in Postages, single_key \in BOOLEAN}

\* The weight of the reveal of a plan for one payload with a body of n bytes.
RevealWeightOf(c) ==
  weight(Transaction(
    [k \in 1..Len(RevealInputs(c, NullOutPoint)) |->
       TxIn(NullOutPoint,
            IF k - 1 = reveal_vout_postage(c)
            THEN <<RevealSignature(c), ScriptElementOf(RevealScriptOf(c, 1)), ControlBlockElement>>
            ELSE <<>>)],
    RevealOutputs(c, 1, 0)))

BigCall(n, companion, no_limit) ==
  Call(NoSatPoint, <<Payload(SomeLen(10), SomeLen(n))>>, <<>>,
       <<Utxo(outpoint(1), 20 * 100000000), Utxo(outpoint(2), WalletValue)>>,
       <<recipient>>, NoAddress, NoAddress, companion, CompanionTxOut(companion),
       FeeRate(1, 1), FeeRate(1, 1), NoMaxInputs, no_limit, DEFAULT_TARGET_POSTAGE,
       FALSE, FALSE, FALSE, FALSE, "test")

\* Bodies whose reveal weighs the limit, one unit less and one unit more, and
\* the body of MAX_STANDARD_TX_WEIGHT bytes of the tests.
LimitBodies(companion) ==
  {n \in (MAX_STANDARD_TX_WEIGHT - 3200)..(MAX_STANDARD_TX_WEIGHT - 2400) :
     RevealWeightOf(BigCall(n, companion, FALSE)) - MAX_STANDARD_TX_WEIGHT \in {-1, 0, 1}}
    \cup {MAX_STANDARD_TX_WEIGHT}

WeightCalls ==
  {BigCall(n, companion, no_limit) :
     companion \in {NoOutPoint, SomeOutPoint(outpoint(2))},
     no_limit \in BOOLEAN,
     n \in LimitBodies(NoOutPoint) \cup LimitBodies(SomeOutPoint(outpoint(2)))}

PlanCalls == GateCalls \cup FeeCalls \cup WeightCalls

\* Batches whose reveals are written out and read back: payloads without
\* fields, with empty fields, below and above one chunk, with and without a
\* companion, cursed66 and single_key.
RoundTripPayloads ==
  SmallPayloads \cup {Payload(SomeLen(0), SomeLen(0)), Payload(NoLen, SomeLen(ChunkSize))}
RoundTripCalls ==
  {Call(NoSatPoint, inscription, <<>>,
        <<Utxo(outpoint(1), 20 * 100000000), Utxo(outpoint(2), WalletValue)>>,
        <<recipient>>, NoAddress, NoAddress, companion, CompanionTxOut(companion),
        FeeRate(1, 1), FeeRate(1, 1), NoMaxInputs, FALSE, DEFAULT_TARGET_POSTAGE,
        cursed66, FALSE, FALSE, single_key, "test") :
     inscription \in SeqsFromTo(RoundTripPayloads, 1, MaxPayloads),
     companion \in {NoOutPoint, SomeOutPoint(outpoint(2))},
     cursed66 \in BOOLEAN, single_key \in BOOLEAN}

-----------------------------------------------------------------------------
\* The planner's arguments and locals before the call.

NoCall ==
  Call(NoSatPoint, <<>>, <<>>, <<>>, <<>>, NoAddress, NoAddress, NoOutPoint, NoTxOut,
       FeeRate(1, 1), FeeRate(1, 1), NoMaxInputs, FALSE, 0, FALSE, FALSE, FALSE, FALSE, "none")

NoPlan ==
  [satpoint |-> NoSatPoint.v, reveal_fees |-> <<>>, mode |-> "exact",
   commit |-> NoTransaction, first_vout |-> -1, reveals |-> <<>>,
   err |-> "", done |-> FALSE]

-----------------------------------------------------------------------------
\* The state machine.

NotParsed == [done |-> FALSE, err |-> "Ok", val |-> <<>>, element |-> 0]
NotExtracted == [done |-> FALSE, val |-> <<>>]
NotScanned ==
  [ins |-> <<>>, pos |-> 0, at |-> "header", matched |-> 0, fields |-> NoFields,
   tag |-> <<>>, body |-> <<>>, start |-> 0, inscriptions |-> <<>>, calls |-> <<>>,
   done |-> FALSE]

Plan == input[idx]
Calls == CallsOf(Plan)

-----------------------------------------------------------------------------
\* The inscribe command at rest, the codec at rest.

NoRun == [result |-> ""]

InscribeIdle ==
  /\ args = NoCall /\ planned = NoPlan /\ rpc = <<>> /\ run = NoRun /\ ipc = "idle"

CodecIdle ==
  /\ input = <<>> /\ idx = 1 /\ ci = 0 /\ builder = <<>> /\ witness = <<>>
  /\ parsed = NotParsed /\ results = <<>> /\ tx = <<>> /\ extracted = NotExtracted
  /\ pc = "idle" /\ scan = NotScanned

InitWith(inputs) ==
  /\ input \in inputs
  /\ idx = 1
  /\ ci = 0
  /\ builder = <<>>
  /\ witness = <<>>
  /\ parsed = NotParsed
  /\ results = <<>>
  /\ tx = <<>>
  /\ extracted = NotExtracted
  /\ pc = "build"
  /\ scan = NotScanned
  /\ InscribeIdle

InitCodec == InitWith({<<p>> : p \in CodecPlans})
InitParse == InitWith({<<p>> : p \in ParsePlans})
InitTx == InitWith(SeqsFromTo(TxPlans, 1, MaxInputs))
InitStream == InitWith({<<p>> : p \in StreamPlans})
InitMixed == InitWith(MixedInputs)

\* builder.push_opcode(op)
PushOpcode ==
  /\ pc = "build" /\ ci < Len(Calls) /\ Calls[ci + 1].k = "push_opcode"
  /\ builder' = push_opcode(builder, Calls[ci + 1].op)
  /\ ci' = ci + 1
  /\ UNCHANGED <<input, idx, witness, parsed, results, tx, extracted, pc>>
  /\ UNCHANGED <<ivars, scan>>

\* builder.push_slice(data)
PushSlice ==
  /\ pc = "build" /\ ci < Len(Calls) /\ Calls[ci + 1].k = "push_slice"
  /\ builder' = push_slice(builder, Calls[ci + 1].data)
  /\ ci' = ci + 1
  /\ UNCHANGED <<input, idx, witness, parsed, results, tx, extracted, pc>>
  /\ UNCHANGED <<ivars, scan>>

\* inscription.append_reveal_script_to_builder(builder, cursed)
AppendRevealScript ==
  /\ pc = "build" /\ ci < Len(Calls) /\ Calls[ci + 1].k = "append_reveal_script"
  /\ builder' = append_reveal_script_to_builder(Calls[ci + 1].inscription, builder,
                                                Calls[ci + 1].cursed)
  /\ ci' = ci + 1
  /\ UNCHANGED <<input, idx, witness, parsed, results, tx, extracted, pc>>
  /\ UNCHANGED <<ivars, scan>>

\* builder.into_script() placed in a witness.
IntoWitness ==
  /\ pc = "build" /\ ci = Len(Calls)
  /\ witness' = WitnessOf(Plan.shape, builder)
  /\ pc' = "witness"
  /\ UNCHANGED <<input, idx, ci, builder, parsed, results, tx, extracted>>
  /\ UNCHANGED <<ivars, scan>>

\* Inscription::from_witness(&witness)
Parse ==
  /\ pc = "witness"
  /\ parsed' = With(parse(witness), LAMBDA r :
                  [done |-> TRUE, err |-> r.err, val |-> r.val, element |-> r.element])
  /\ pc' = "parsed"
  /\ UNCHANGED <<input, idx, ci, builder, witness, results, tx, extracted>>
  /\ UNCHANGED <<ivars, scan>>

\* The witness becomes the next input of the transaction.
AddInput ==
  /\ pc = "parsed"
  /\ tx' = Append(tx, witness)
  /\ results' = Append(results, parsed)
  /\ pc' = IF idx = Len(input) THEN "extract" ELSE "build"
  /\ idx' = IF idx = Len(input) THEN idx ELSE idx + 1
  /\ ci' = 0
  /\ builder' = <<>>
  /\ witness' = <<>>
  /\ parsed' = NotParsed
  /\ UNCHANGED <<input, extracted>>
  /\ UNCHANGED <<ivars, scan>>

\* Inscription::from_transaction(&tx)
FromTransaction ==
  /\ pc = "extract"
  /\ extracted' = [done |-> TRUE, val |-> from_transaction(tx)]
  /\ pc' = "done"
  /\ UNCHANGED <<input, idx, ci, builder, witness, parsed, results, tx>>
  /\ UNCHANGED <<ivars, scan>>

Next ==
  \/ PushOpcode
  \/ PushSlice
  \/ AppendRevealScript
  \/ IntoWitness
  \/ Parse
  \/ AddInput
  \/ FromTransaction

SpecCodec == InitCodec /\ [][Next]_vars
SpecParse == InitParse /\ [][Next]_vars
SpecTx == InitTx /\ [][Next]_vars
SpecStream == InitStream /\ [][Next]_vars
SpecMixed == InitMixed /\ [][Next]_vars

\* parse_inscriptions one instruction at a time: `at` is the loop the parser
\* is in (the header match of advance_into_inscription_envelope, the field
\* loop, the value of a field, the body loop), `start` is where the iterator
\* stood when the current call of parse_one_inscription began, and `calls`
\* records the calls that returned.

\* parse_one_inscription returns; parse_inscriptions breaks on NoInscription
\* and pushes any other result before it calls again.
Returning(err, val, pos) ==
  [scan EXCEPT !.pos = pos, !.at = "header", !.matched = 0, !.fields = NoFields,
               !.tag = <<>>, !.body = <<>>, !.start = pos,
               !.inscriptions = IF err = "NoInscription" THEN @
                                ELSE Append(@, [err |-> err, val |-> val]),
               !.calls = Append(@, [from |-> scan.start, to |-> pos, err |-> err]),
               !.done = (err = "NoInscription")]

\* The end of parse_one_inscription: the even tag test and the inscription.
ReturningEnvelope(fields, pos) ==
  IF UnrecognizedEven(fields)
  THEN Returning("UnrecognizedEvenField", NoValue, pos)
  ELSE Returning("Ok", Inscription(remove(fields, CONTENT_TYPE_TAG), remove(fields, BODY_TAG)),
                 pos)

Advanced == advance(scan.ins, scan.pos)
Pushed == expect_push(scan.ins, scan.pos)
Accepted == accept(scan.ins, scan.pos, Op(OP_ENDIF))

\* One advance() of match_instructions(&INSCRIPTION_ENVELOPE_HEADER): a
\* mismatch returns Ok(false) and the loop matches again from the next item.
MatchHeader ==
  /\ pc = "scan" /\ scan.at = "header"
  /\ scan' = IF Advanced.err # "Ok" THEN Returning(Advanced.err, NoValue, Advanced.pos)
             ELSE IF Advanced.val # INSCRIPTION_ENVELOPE_HEADER[scan.matched + 1]
             THEN [scan EXCEPT !.pos = Advanced.pos, !.matched = 0]
             ELSE IF scan.matched + 1 = Len(INSCRIPTION_ENVELOPE_HEADER)
             THEN [scan EXCEPT !.pos = Advanced.pos, !.matched = 0, !.at = "fields"]
             ELSE [scan EXCEPT !.pos = Advanced.pos, !.matched = @ + 1]
  /\ pc' = IF scan'.done THEN "scanned" ELSE "scan"
  /\ UNCHANGED <<input, idx, ci, builder, witness, parsed, results, tx, extracted>>
  /\ UNCHANGED ivars

\* match self.advance()? { .. } of the field loop.
ReadField ==
  /\ pc = "scan" /\ scan.at = "fields"
  /\ scan' = IF Advanced.err # "Ok" THEN Returning(Advanced.err, NoValue, Advanced.pos)
             ELSE IF Advanced.val.kind = "push" /\ Advanced.val.bytes = BODY_TAG
             THEN [scan EXCEPT !.pos = Advanced.pos, !.at = "body"]
             ELSE IF Advanced.val.kind = "push"
             THEN IF Advanced.val.bytes \in DOMAIN scan.fields
                  THEN Returning("InvalidInscription", NoValue, Advanced.pos)
                  ELSE [scan EXCEPT !.pos = Advanced.pos, !.at = "value",
                                    !.tag = Advanced.val.bytes]
             ELSE IF Advanced.val = Op(OP_ENDIF)
             THEN ReturningEnvelope(scan.fields, Advanced.pos)
             ELSE Returning("InvalidInscription", NoValue, Advanced.pos)
  /\ pc' = IF scan'.done THEN "scanned" ELSE "scan"
  /\ UNCHANGED <<input, idx, ci, builder, witness, parsed, results, tx, extracted>>
  /\ UNCHANGED ivars

\* fields.insert(tag, self.expect_push()?.to_vec())
ReadValue ==
  /\ pc = "scan" /\ scan.at = "value"
  /\ scan' = IF Pushed.err # "Ok" THEN Returning(Pushed.err, NoValue, Pushed.pos)
             ELSE [scan EXCEPT !.pos = Pushed.pos, !.at = "fields",
                               !.fields = insert(@, scan.tag, Pushed.val)]
  /\ pc' = IF scan'.done THEN "scanned" ELSE "scan"
  /\ UNCHANGED <<input, idx, ci, builder, witness, parsed, results, tx, extracted>>
  /\ UNCHANGED ivars

\* while !self.accept(OP_ENDIF)? { body.extend_from_slice(self.expect_push()?) }:
\* one test of the loop and, when it does not end, one push of the body.
ReadBodyPush ==
  /\ pc = "scan" /\ scan.at = "body"
  /\ scan' = IF Accepted.err # "Ok" THEN Returning(Accepted.err, NoValue, Accepted.pos)
             ELSE IF Accepted.val
             THEN ReturningEnvelope(insert(scan.fields, BODY_TAG, scan.body), Accepted.pos)
             ELSE IF Pushed.err # "Ok" THEN Returning(Pushed.err, NoValue, Pushed.pos)
             ELSE [scan EXCEPT !.pos = Pushed.pos, !.body = @ \o Pushed.val]
  /\ pc' = IF scan'.done THEN "scanned" ELSE "scan"
  /\ UNCHANGED <<input, idx, ci, builder, witness, parsed, results, tx, extracted>>
  /\ UNCHANGED ivars

NextScan ==
  \/ MatchHeader
  \/ ReadField
  \/ ReadValue
  \/ ReadBodyPush

\* InscriptionParser { instructions: Script::from(..).instructions().peekable() }
\* .parse_inscriptions(): the loop is entered with the iterator at the first
\* instruction of the script element of a witness.
InitScan ==
  /\ \E p \in ScanPlans :
       /\ input = <<p>>
       /\ ci = Len(CallsOf(p))
       /\ builder = Build(<<>>, CallsOf(p))
       /\ witness = WitnessOf(p.shape, builder)
  /\ scan = [NotScanned EXCEPT !.ins = Instructions(witness[ScriptElement(witness)])]
  /\ idx = 1 /\ parsed = NotParsed /\ results = <<>> /\ tx = <<>>
  /\ extracted = NotExtracted
  /\ pc = "scan"
  /\ InscribeIdle

SpecScan == InitScan /\ [][NextScan]_vars

\* The parser is a sequential loop: a call that can be made is made.
SpecScanFair == SpecScan /\ WF_vars(NextScan)

-----------------------------------------------------------------------------
\* The planner as a state machine: one action per stage of
\* create_inscription_transactions, one per iteration of the reveal loop.

\* Where control goes when create_inscription_transactions returns.
Returned == IF args.caller = "run" THEN "returned" ELSE "done"

Fail(message) ==
  /\ planned' = [planned EXCEPT !.err = message, !.done = TRUE]
  /\ ipc' = Returned

\* let satpoint = ...
SelectSatpoint ==
  /\ ipc = "select_satpoint"
  /\ With(select_satpoint(args.satpoint, args.inscriptions, args.utxos, args.cursed_outpoint),
          LAMBDA r :
       IF r.err # "" THEN Fail(r.err)
       ELSE /\ planned' = [planned EXCEPT !.satpoint = r.v]
            /\ ipc' = "gate")
  /\ UNCHANGED <<cvars, args, rpc, run>>

\* for (inscribed_satpoint, inscription_id) in &inscriptions
ReinscriptionGate ==
  /\ ipc = "gate"
  /\ With(reinscription_gate(args.inscriptions, planned.satpoint, args.allow_reinscribe,
                             args.ignore_utxo_inscriptions),
          LAMBDA message :
       IF message # "" THEN Fail(message)
       ELSE /\ planned' = planned
            /\ ipc' = "make_reveals")
  /\ UNCHANGED <<cvars, args, rpc, run>>

\* for (i, inscription) in inscription.iter().enumerate(): keys, scripts,
\* addresses and reveal_fees.
MakeReveals ==
  /\ ipc = "make_reveals"
  /\ planned' = [planned EXCEPT !.reveal_fees =
                            [i \in 1..Len(args.inscription) |-> EstimateRevealFee(args, i)]]
  /\ ipc' = "make_commit"
  /\ UNCHANGED <<cvars, args, rpc, run>>

\* TransactionBuilder::build_transaction_with_values(...)? and the search for
\* the first inscription output.
MakeCommit ==
  /\ ipc = "make_commit"
  /\ \E mode \in FundingModes :
       With(build_transaction_with_values(args, planned.satpoint, planned.reveal_fees, mode),
            LAMBDA r :
         IF r.err # "" THEN Fail(r.err)
         ELSE IF first_vout(args, r.v) < 0 THEN Fail(Panic)
         ELSE /\ planned' = [planned EXCEPT !.commit = r.v, !.mode = mode,
                                      !.first_vout = first_vout(args, r.v)]
              /\ ipc' = "remake_reveals")
  /\ UNCHANGED <<cvars, args, rpc, run>>

\* for (i, key_pair) in key_pairs.iter().enumerate(): one iteration.
RemakeReveal ==
  /\ ipc = "remake_reveals"
  /\ Len(planned.reveals) < Len(args.inscription)
  /\ With(remake_reveal(args, planned.commit, planned.first_vout, Len(planned.reveals) + 1),
          LAMBDA r :
       IF r.err # ""
       THEN /\ planned' = [planned EXCEPT !.err = r.err, !.done = TRUE,
                                    !.reveals = Append(@, r)]
            /\ ipc' = Returned
       ELSE /\ planned' = [planned EXCEPT !.reveals = Append(@, r)]
            /\ ipc' = ipc)
  /\ UNCHANGED <<cvars, args, rpc, run>>

\* Ok((satpoint, unsigned_commit_tx, reveal_txs, recovery_key_pairs))
ReturnPlan ==
  /\ ipc = "remake_reveals"
  /\ Len(planned.reveals) = Len(args.inscription)
  /\ planned' = [planned EXCEPT !.done = TRUE]
  /\ ipc' = Returned
  /\ UNCHANGED <<cvars, args, rpc, run>>

NextPlan ==
  \/ SelectSatpoint
  \/ ReinscriptionGate
  \/ MakeReveals
  \/ MakeCommit
  \/ RemakeReveal
  \/ ReturnPlan

InitPlan ==
  /\ CodecIdle
  /\ args \in PlanCalls
  /\ planned = NoPlan /\ rpc = <<>> /\ run = NoRun
  /\ ipc = "select_satpoint"

SpecPlan == InitPlan /\ [][NextPlan]_vars

\* The reveals of a successful plan handed to Inscription::from_transaction,
\* one after the other: reveal idx becomes the transaction to read.
LoadReveal ==
  /\ ipc = "done" /\ planned.err = ""
  /\ pc \in {"idle", "done"}
  /\ idx' = IF pc = "idle" THEN idx ELSE idx + 1
  /\ idx' <= Len(planned.reveals)
  /\ \E parity \in {0, 1} : tx' = Witnesses(planned.reveals[idx'].tx, parity)
  /\ extracted' = NotExtracted
  /\ pc' = "extract"
  /\ UNCHANGED <<input, ci, builder, witness, parsed, results>>
  /\ UNCHANGED <<ivars, scan>>

NextReveal ==
  \/ SelectSatpoint
  \/ ReinscriptionGate
  \/ MakeReveals
  \/ MakeCommit
  \/ RemakeReveal
  \/ ReturnPlan
  \/ LoadReveal
  \/ FromTransaction

InitReveal ==
  /\ CodecIdle
  /\ args \in RoundTripCalls
  /\ planned = NoPlan /\ rpc = <<>> /\ run = NoRun
  /\ ipc = "select_satpoint"

SpecReveal == InitReveal /\ [][NextReveal]_vars

-----------------------------------------------------------------------------
\* Inscribe::run: the command around the planner.  Every operation on the
\* node, the wallet or the index is appended to `rpc` when it is issued.

\* The command line and the world it runs in: the wallet's utxos and the
\* satpoints the index knows as inscribed.
Options(files, destination, satpoint, utxo, coin_control, cursed, cursed_utxo, dry_run,
        no_backup, no_broadcast, dump, single_key, allow_reinscribe,
        ignore_utxo_inscriptions, no_limit, wallet, indexed) ==
  [files |-> files, destination |-> destination, satpoint |-> satpoint, utxo |-> utxo,
   coin_control |-> coin_control, cursed |-> cursed, cursed_utxo |-> cursed_utxo,
   dry_run |-> dry_run,
   no_backup |-> no_backup, no_broadcast |-> no_broadcast, dump |-> dump,
   single_key |-> single_key, allow_reinscribe |-> allow_reinscribe,
   ignore_utxo_inscriptions |-> ignore_utxo_inscriptions, no_limit |-> no_limit,
   wallet |-> wallet, indexed |-> indexed]

Issued(name, n) == [op |-> name, n |-> n]

\* The locals of run.
Locals(self) ==
  [self |-> self, result |-> "", destinations |-> <<>>, utxos |-> <<>>,
   inscriptions |-> <<>>, commit_tx_change |-> <<>>, cursed_outpoint |-> NoOutPoint,
   cursed_txout |-> NoTxOut, commit_signed |-> FALSE, fees |-> 0,
   recovery_key_pairs |-> <<>>, signed_reveal_txs |-> <<>>, printed |-> "",
   imported |-> <<>>, file |-> "absent", commit_sent |-> FALSE, reveals |-> <<>>,
   failed_reveals |-> <<>>, lines |-> <<>>, kept |-> FALSE,
   notice |-> 0]

NoFiles == "Provide at least one file to inscribe"
CursedBatch == "Currently --cursed only works on one inscription at a time"
SigningCommit == "error signing commit tx"
SigningReveal == "error signing reveal tx"
ImportFailed == "commit tx recovery key import failed"
CannotWrite == "cannot write to the current directory"
ReconnectFailed == "failed to connect to Bitcoin Core RPC"
SendCommitFailed == "Failed to send commit transaction"
CommitOverweight == "commit transaction weight greater than MAX_STANDARD_TX_WEIGHT"
PrintFailed == "print_json failed"
RemoveFailed == "remove_file failed"
WriteFailed == "writeln failed"

\* return Err(..) from run
Bail(message) ==
  /\ run' = [run EXCEPT !.result = message]
  /\ ipc' = "exit"

\* The n-th address the wallet hands out on get_change_address.
ChangeAddress(n) == P2WPKH(10 + n)

\* How many change addresses were requested so far.
Requested == Len(SelectSeq(rpc, LAMBDA o : o.op = "get_change_address"))

\* Files and destinations: one change address is requested per file when no
\* --destination is given.
OpenFiles ==
  /\ ipc = "open_files"
  /\ With(IF run.self.destination = <<>> THEN Len(run.self.files) ELSE 0, LAMBDA n :
       /\ rpc' = rpc \o [k \in 1..n |-> Issued("get_change_address", k)]
       /\ IF run.self.files = <<>> THEN Bail(NoFiles)
          ELSE IF run.self.cursed /\ Len(run.self.files) # 1 THEN Bail(CursedBatch)
          ELSE /\ run' = [run EXCEPT !.destinations =
                            IF run.self.destination = <<>>
                            THEN [k \in 1..n |-> ChangeAddress(k)]
                            ELSE run.self.destination]
               /\ ipc' = "update_index")
  /\ UNCHANGED <<cvars, args, planned>>

\* BTreeMap::insert on the utxos, kept in key order.
utxos_insert(utxos, u) ==
  SelectSeq(utxos, LAMBDA x : x.outpoint.txid < u.outpoint.txid
                              \/ (x.outpoint.txid = u.outpoint.txid
                                  /\ x.outpoint.vout < u.outpoint.vout))
  \o <<u>>
  \o SelectSeq(utxos, LAMBDA x : x.outpoint.txid > u.outpoint.txid
                                 \/ (x.outpoint.txid = u.outpoint.txid
                                     /\ x.outpoint.vout > u.outpoint.vout))

RECURSIVE InsertAll(_, _)
InsertAll(utxos, more) ==
  IF more = <<>> THEN utxos ELSE InsertAll(utxos_insert(utxos, Head(more)), Tail(more))

\* index.get_inscriptions(utxos): the indexed satpoints on these utxos.
get_inscriptions(indexed, utxos) ==
  SelectSeq(indexed, LAMBDA s : \E k \in 1..Len(utxos) : utxos[k].outpoint = s.outpoint)

\* The index is updated, the wallet's utxos are read (none under
\* --coin-control), each --utxo is fetched from the node and inserted, and the
\* inscriptions on these utxos are read from the index.
GetUtxos ==
  /\ ipc = "update_index"
  /\ rpc' = rpc \o <<Issued("index.update", 0)>>
                \o (IF run.self.coin_control THEN <<>>
                    ELSE <<Issued("index.get_unspent_outputs", 0)>>)
                \o [k \in 1..Len(run.self.utxo) |->
                      Issued("get_raw_transaction", run.self.utxo[k].txid)]
                \o <<Issued("index.get_inscriptions", 0)>>
  /\ With(InsertAll(IF run.self.coin_control THEN <<>> ELSE run.self.wallet,
                    [k \in 1..Len(run.self.utxo) |-> Utxo(run.self.utxo[k], WalletValue)]),
          LAMBDA utxos :
       run' = [run EXCEPT !.utxos = utxos,
                          !.inscriptions = get_inscriptions(run.self.indexed, utxos)])
  /\ ipc' = "get_change"
  /\ UNCHANGED <<cvars, args, planned>>

\* let commit_tx_change = [get_change_address(..)?, get_change_address(..)?]
GetChange ==
  /\ ipc = "get_change"
  /\ rpc' = rpc \o <<Issued("get_change_address", Requested + 1),
                     Issued("get_change_address", Requested + 2)>>
  /\ run' = [run EXCEPT !.commit_tx_change =
                          <<ChangeAddress(Requested + 1), ChangeAddress(Requested + 2)>>]
  /\ ipc' = "cursed"
  /\ UNCHANGED <<cvars, args, planned>>

\* Mutant of smallest_cardinal: the satpoint's utxo is not excluded.
smallest_cardinal_with_satpoint(utxos, inscriptions, satpoint) ==
  With(SelectSeq(utxos, LAMBDA u :
         /\ u.outpoint \notin inscribed_utxos(inscriptions)
         /\ u.value >= 546), LAMBDA eligible :
    IF eligible = <<>> THEN NoOutPoint
    ELSE SomeOutPoint(eligible[Position(eligible, LAMBDA u :
           \A k \in 1..Len(eligible) : u.value <= eligible[k].value)].outpoint))

\* The cursed companion: the first utxo of smallest value among those that
\* carry no inscription, are not the utxo of --satpoint and hold 546 sat or
\* more.
smallest_cardinal(utxos, inscriptions, satpoint) ==
  With(SelectSeq(utxos, LAMBDA u :
         /\ u.outpoint \notin inscribed_utxos(inscriptions)
         /\ (~satpoint.some \/ u.outpoint # satpoint.v.outpoint)
         /\ u.value >= 546), LAMBDA eligible :
    IF eligible = <<>> THEN NoOutPoint
    ELSE SomeOutPoint(eligible[Position(eligible, LAMBDA u :
           \A k \in 1..Len(eligible) : u.value <= eligible[k].value)].outpoint))

\* index.get_transaction(txid).output[vout].value: the value the wallet
\* reported for its own utxos, that of a wallet output for any other.
IndexedValue(utxos, o) ==
  IF \E k \in 1..Len(utxos) : utxos[k].outpoint = o THEN ValueOf(utxos, o) ELSE WalletValue

\* if let Some(cursed_utxo) = self.cursed_utxo { .. } else { .. }: the utxo
\* named on the command line, else the smallest cardinal one.
cursed_companion(cursed_utxo, utxos, inscriptions, satpoint) ==
  IF cursed_utxo.some THEN cursed_utxo ELSE smallest_cardinal(utxos, inscriptions, satpoint)

\* The companion of a cursed inscription and its output, from the index.
SelectCompanion ==
  /\ ipc = "cursed"
  /\ IF ~run.self.cursed
     THEN /\ rpc' = rpc /\ run' = run /\ ipc' = "plan"
     ELSE With(cursed_companion(run.self.cursed_utxo, run.utxos, run.inscriptions,
                                run.self.satpoint), LAMBDA o :
            IF ~o.some
            THEN rpc' = rpc /\ Bail(NoCardinalUtxos)
            ELSE /\ rpc' = Append(rpc, Issued("index.get_transaction", o.v.txid))
                 /\ run' = [run EXCEPT !.cursed_outpoint = o,
                                       !.cursed_txout =
                                         TxOut(P2TR(<<XOnlyPublicKey(KeyPair(0))>>),
                                               IndexedValue(run.utxos, o.v))]
                 /\ ipc' = "plan")
  /\ UNCHANGED <<cvars, args, planned>>

\* Inscribe::create_inscription_transactions(self.satpoint, inscription, ...)
CallPlanner ==
  /\ ipc = "plan"
  /\ args' = [Call(run.self.satpoint, run.self.files, run.inscriptions, run.utxos,
                   run.destinations, NoAddress, NoAddress, run.cursed_outpoint,
                   run.cursed_txout, FeeRate(1, 1), FeeRate(1, 1), NoMaxInputs,
                   run.self.no_limit, DEFAULT_TARGET_POSTAGE, FALSE,
                   run.self.allow_reinscribe,
                   run.self.ignore_utxo_inscriptions, run.self.single_key, "run")
              EXCEPT !.change = run.commit_tx_change]
  /\ planned' = NoPlan
  /\ ipc' = "select_satpoint"
  /\ UNCHANGED <<cvars, rpc, run>>

\* utxos.get(&txin.previous_output) is Some for every input.
InputsKnown(transaction, utxos) ==
  \A i \in 1..Len(transaction.input) :
    \E k \in 1..Len(utxos) : utxos[k].outpoint = transaction.input[i].previous_output

\* Inscribe::calculate_fee: the values of the inputs less the values of the
\* outputs.  It panics on an input that is not in utxos (unwrap of get) and
\* on outputs worth more than the inputs (unwrap of checked_sub).
calculate_fee(transaction, utxos) ==
  IF ~InputsKnown(transaction, utxos) THEN Err(Panic, 0)
  ELSE With(SumOf(transaction.input, LAMBDA txin : ValueOf(utxos, txin.previous_output)),
            LAMBDA sum_in :
         IF sum_in < OutputValue(transaction.output) THEN Err(Panic, 0)
         ELSE Ok(sum_in - OutputValue(transaction.output)))

\* calculate_fee(&unsigned_commit_tx, &utxos)
\*   + reveal_txs.iter().map(|reveal_tx| calculate_fee(reveal_tx, &utxos)).sum()
total_fees(commit, reveals, utxos) ==
  With([k \in 1..(Len(reveals) + 1) |->
          calculate_fee(IF k = 1 THEN commit ELSE reveals[k - 1].tx, utxos)], LAMBDA fees :
    IF \E k \in 1..Len(fees) : fees[k].err # "" THEN Err(Panic, 0)
    ELSE Ok(SumOf(fees, LAMBDA f : f.v)))

\* utxos with the commit outputs the reveals spend.
WithCommitOutputs(utxos, reveals, commit, vin) ==
  InsertAll(utxos,
            [k \in 1..Len(reveals) |->
               Utxo(reveals[k].tx.input[vin + 1].previous_output,
                    commit.output[reveals[k].tx.input[vin + 1].previous_output.vout + 1].value)])

\* The witness the wallet puts on an input it owns.
WalletWitness == <<SignatureElement(72), [is |-> "public_key", len |-> 33]>>

\* sign_raw_transaction_with_wallet(tx, ..).hex: the wallet signs the inputs
\* it owns, those that have no witness yet (the inputs of the commit, the
\* cursed companion of a reveal); the script-path input of a reveal keeps the
\* witness the planner gave it.
sign_raw_transaction_with_wallet(reveal_tx) ==
  [reveal_tx EXCEPT !.input =
     [k \in 1..Len(reveal_tx.input) |->
        IF reveal_tx.input[k].witness = <<>>
        THEN TxIn(reveal_tx.input[k].previous_output, WalletWitness)
        ELSE reveal_tx.input[k]]]

\* raw_hex(): the serialization of a transaction, witnesses included.
raw_hex(transaction) == transaction

\* client.call("decoderawtransaction", [hex]).weight
decoded_weight(hex) == weight(hex)

\* let (..) = create_inscription_transactions(..)?; the commit is signed by
\* the wallet and weighed by the node; the fees are summed, which can panic;
\* under --dry-run the plan is printed and run returns.
SignCommit ==
  /\ ipc = "returned"
  /\ IF planned.err # ""
     THEN rpc' = rpc /\ Bail(planned.err)
     ELSE \E complete \in BOOLEAN :
            IF ~complete
            THEN /\ rpc' = Append(rpc, Issued("sign_raw_transaction_with_wallet", 0))
                 /\ Bail(SigningCommit)
            ELSE /\ rpc' = rpc \o <<Issued("sign_raw_transaction_with_wallet", 0),
                                    Issued("decoderawtransaction", 0)>>
                 /\ IF /\ ~run.self.no_limit
                       /\ decoded_weight(raw_hex(sign_raw_transaction_with_wallet(planned.commit)))
                            > MAX_STANDARD_TX_WEIGHT
                    THEN Bail(CommitOverweight)
                    ELSE With(total_fees(planned.commit, planned.reveals,
                                         WithCommitOutputs(run.utxos, planned.reveals,
                                                           planned.commit,
                                                           reveal_vout_postage(args))),
                              LAMBDA fees :
                      IF fees.err # "" THEN Bail(fees.err)
                      ELSE IF run.self.dry_run
                      THEN \E printed \in BOOLEAN :
                             IF ~printed THEN Bail(PrintFailed)
                             ELSE /\ run' = [run EXCEPT !.commit_signed = TRUE,
                                                        !.recovery_key_pairs =
                                                          [k \in 1..Len(planned.reveals) |->
                                                             planned.reveals[k].recovery_key_pair],
                                                        !.fees = fees.v,
                                                        !.printed = "Output",
                                                        !.result = "Ok"]
                                  /\ ipc' = "exit"
                      ELSE /\ run' = [run EXCEPT
                                !.commit_signed = TRUE,
                                !.recovery_key_pairs =
                                  [k \in 1..Len(planned.reveals) |->
                                     planned.reveals[k].recovery_key_pair],
                                !.fees = fees.v]
                           /\ ipc' = "sign_reveals")
  /\ UNCHANGED <<cvars, args, planned>>

\* for reveal_tx in reveal_txs.iter(): one reveal is signed by the wallet and
\* weighed by the node, and refused when it weighs more than the limit.
SignReveal ==
  /\ ipc = "sign_reveals"
  /\ Len(run.signed_reveal_txs) < Len(planned.reveals)
  /\ With(Len(run.signed_reveal_txs) + 1, LAMBDA i :
       \E complete \in BOOLEAN :
         IF ~complete
         THEN /\ rpc' = Append(rpc, Issued("sign_raw_transaction_with_wallet", i))
              /\ Bail(SigningReveal)
         ELSE /\ rpc' = rpc \o <<Issued("sign_raw_transaction_with_wallet", i),
                                 Issued("decoderawtransaction", i)>>
              /\ With(raw_hex(sign_raw_transaction_with_wallet(planned.reveals[i].tx)),
                      LAMBDA hex :
                   IF WeightCheck(run.self.no_limit, decoded_weight(hex)) # ""
                   THEN Bail(WeightCheck(run.self.no_limit, decoded_weight(hex)))
                   ELSE /\ run' = [run EXCEPT
                             !.signed_reveal_txs =
                               Append(@, [reveal_tx |-> planned.reveals[i].tx, hex |-> hex]),
                             !.recovery_key_pairs =
                               IF run.self.single_key
                               THEN <<planned.reveals[1].recovery_key_pair>>
                               ELSE @]
                        /\ ipc' = ipc))
  /\ UNCHANGED <<cvars, args, planned>>

\* if self.dump { .. }: each signed reveal is decoded, a descriptor is made
\* for each recovery key pair, the dump is printed.
Dump ==
  /\ ipc = "sign_reveals"
  /\ Len(run.signed_reveal_txs) = Len(planned.reveals)
  /\ IF run.self.dump
     THEN /\ rpc' = rpc \o [k \in 1..Len(run.signed_reveal_txs) |->
                              Issued("decoderawtransaction", k)]
                        \o [k \in 1..Len(run.recovery_key_pairs) |->
                              Issued("get_descriptor_info",
                                 run.recovery_key_pairs[k].key_pair.secret)]
          /\ \E printed \in BOOLEAN :
               IF ~printed THEN Bail(PrintFailed)
               ELSE /\ run' = [run EXCEPT !.printed = "OutputDump"]
                    /\ ipc' = "backup"
     ELSE rpc' = rpc /\ run' = run /\ ipc' = "backup"
  /\ UNCHANGED <<cvars, args, planned>>

\* Inscribe::backup_recovery_key for one recovery key pair, and the step past
\* the loop.
Backup ==
  /\ ipc = "backup"
  /\ IF run.self.no_backup \/ Len(run.imported) = Len(run.recovery_key_pairs)
     THEN /\ rpc' = rpc /\ run' = run
          /\ ipc' = "broadcast"
     ELSE With(run.recovery_key_pairs[Len(run.imported) + 1], LAMBDA recovery_key_pair :
            /\ rpc' = rpc \o <<Issued("get_descriptor_info", recovery_key_pair.key_pair.secret),
                               Issued("import_descriptors", recovery_key_pair.key_pair.secret)>>
            /\ \E success \in BOOLEAN :
                 IF ~success THEN Bail(ImportFailed)
                 ELSE /\ run' = [run EXCEPT !.imported = Append(@, recovery_key_pair)]
                      /\ ipc' = ipc)
  /\ UNCHANGED <<cvars, args, planned>>

\* Mutant of OpenFailedReveals: the result of the open is not looked at.
OpenFailedReveals_unchecked ==
  /\ ipc = "broadcast"
  /\ IF run.self.no_broadcast
     THEN /\ run' = [run EXCEPT !.result = "Ok"]
          /\ ipc' = "exit"
     ELSE \E opened \in BOOLEAN, longer \in BOOLEAN :
            /\ run' = [run EXCEPT !.file = IF opened THEN "open" ELSE @,
                                  !.kept = opened /\ longer]
            /\ ipc' = "send_commit"
  /\ UNCHANGED <<cvars, args, planned, rpc>>

\* if !self.no_broadcast { .. }: the failed-reveals file is opened before
\* anything is sent.  It is created when it does not exist and is not
\* truncated when it does: `kept` says that a file of that name was there,
\* longer than anything this run will write.
OpenFailedReveals ==
  /\ ipc = "broadcast"
  /\ IF run.self.no_broadcast
     THEN /\ run' = [run EXCEPT !.result = "Ok"]
          /\ ipc' = "exit"
     ELSE \E opened \in BOOLEAN, longer \in BOOLEAN :
            IF ~opened
            THEN Bail(CannotWrite)
            ELSE /\ run' = [run EXCEPT !.file = "open", !.kept = longer]
                 /\ ipc' = "send_commit"
  /\ UNCHANGED <<cvars, args, planned, rpc>>

\* Mutant of SendCommit: the reveals are sent whatever the node answered to
\* the commit.
SendCommit_unchecked ==
  /\ ipc = "send_commit"
  /\ rpc' = Append(rpc, Issued("send_raw_transaction", 0))
  /\ \E sent \in BOOLEAN :
       /\ run' = [run EXCEPT !.commit_sent = sent]
       /\ ipc' = "reconnect"
  /\ UNCHANGED <<cvars, args, planned>>

\* client.send_raw_transaction(&signed_raw_commit_tx)
\*   .context("Failed to send commit transaction")?
SendCommit ==
  /\ ipc = "send_commit"
  /\ rpc' = Append(rpc, Issued("send_raw_transaction", 0))
  /\ \E sent \in BOOLEAN :
       IF ~sent
       THEN Bail(SendCommitFailed)
       ELSE /\ run' = [run EXCEPT !.commit_sent = TRUE]
            /\ ipc' = "reconnect"
  /\ UNCHANGED <<cvars, args, planned>>

\* client = options.bitcoin_rpc_client_for_wallet_command(false)?: a new
\* client is made for the reveals; the command returns when that fails.
Reconnect ==
  /\ ipc = "reconnect"
  /\ \E connected \in BOOLEAN :
       IF connected
       THEN run' = run /\ ipc' = "send_reveals"
       ELSE Bail(ReconnectFailed)
  /\ UNCHANGED <<cvars, args, planned, rpc>>

\* Err(_error) => failed_reveals.push(reveal_tx.raw_hex()): what is kept of a
\* reveal the node refused.
failed_reveal(signed) == raw_hex(signed.reveal_tx)

\* match client.send_raw_transaction(signed_reveal_tx): one reveal.
SendReveal ==
  /\ ipc = "send_reveals"
  /\ Len(run.reveals) + Len(run.failed_reveals) < Len(run.signed_reveal_txs)
  /\ With(Len(run.reveals) + Len(run.failed_reveals) + 1, LAMBDA i :
       /\ rpc' = Append(rpc, Issued("send_raw_transaction", i))
       /\ \E sent \in BOOLEAN :
            run' = IF sent THEN [run EXCEPT !.reveals = Append(@, i)]
                   ELSE [run EXCEPT !.failed_reveals =
                           Append(@, failed_reveal(run.signed_reveal_txs[i]))])
  /\ ipc' = ipc
  /\ UNCHANGED <<cvars, args, planned>>

\* print_json(Output { .. })?: the output is printed once every reveal was
\* handed to the node; run returns when stdout cannot be written.
PrintOutput ==
  /\ ipc = "send_reveals"
  /\ Len(run.reveals) + Len(run.failed_reveals) = Len(run.signed_reveal_txs)
  /\ \E printed \in BOOLEAN :
       IF ~printed THEN Bail(PrintFailed)
       ELSE /\ run' = [run EXCEPT !.printed = "Output"]
            /\ ipc' = "failed_reveals"
  /\ UNCHANGED <<cvars, args, planned, rpc>>

\* if failed_reveals.is_empty() { drop(file); fs::remove_file(..)? }
RemoveFile ==
  /\ ipc = "failed_reveals"
  /\ run.failed_reveals = <<>>
  /\ \E removed \in BOOLEAN :
       IF ~removed THEN Bail(RemoveFailed)
       ELSE /\ run' = [run EXCEPT !.file = "removed", !.kept = FALSE, !.result = "Ok"]
            /\ ipc' = "exit"
  /\ UNCHANGED <<cvars, args, planned, rpc>>

\* for tx in &failed_reveals { writeln!(file, "{tx}")? }: one line, written
\* over the beginning of the file.
WriteFailedReveal ==
  /\ ipc = "failed_reveals"
  /\ Len(run.lines) < Len(run.failed_reveals)
  /\ \E written \in BOOLEAN :
       IF ~written THEN Bail(WriteFailed)
       ELSE /\ run' = [run EXCEPT !.file = "written",
                                  !.lines = Append(@, run.failed_reveals[Len(run.lines) + 1])]
            /\ ipc' = ipc
  /\ UNCHANGED <<cvars, args, planned, rpc>>

\* Every failed reveal is in the file: println!("\n{} reveal{} failed - see
\* {failed_reveals_filename}", ..), which panics when stdout cannot be
\* written, then Ok(()).  `notice` is the number of failed reveals announced.
Finish ==
  /\ ipc = "failed_reveals"
  /\ run.failed_reveals # <<>>
  /\ Len(run.lines) = Len(run.failed_reveals)
  /\ \E printed \in BOOLEAN :
       IF ~printed THEN Bail(Panic)
       ELSE /\ run' = [run EXCEPT !.notice = Len(run.failed_reveals), !.result = "Ok"]
            /\ ipc' = "exit"
  /\ UNCHANGED <<cvars, args, planned, rpc>>

NextRun ==
  \/ OpenFiles
  \/ GetUtxos
  \/ GetChange
  \/ SelectCompanion
  \/ CallPlanner
  \/ SelectSatpoint
  \/ ReinscriptionGate
  \/ MakeReveals
  \/ MakeCommit
  \/ RemakeReveal
  \/ ReturnPlan
  \/ SignCommit
  \/ SignReveal
  \/ Dump
  \/ Backup
  \/ OpenFailedReveals
  \/ SendCommit
  \/ Reconnect
  \/ SendReveal
  \/ PrintOutput
  \/ RemoveFile
  \/ WriteFailedReveal
  \/ Finish

\* The files of a batch of n payloads.
Files(n) == [k \in 1..n |-> Payload(SomeLen(10), SomeLen(2 + k))]

\* Every combination of the output flags, for batches of up to MaxPayloads
\* files, with and without --destination and --cursed.
FlagRuns ==
  {Options(Files(n), destination, NoSatPoint, <<>>, FALSE, cursed, NoOutPoint, dry_run, no_backup,
           no_broadcast, dump, single_key, FALSE, FALSE, FALSE, Wallet(MaxUtxos), <<>>) :
     n \in 0..MaxPayloads, destination \in {<<>>, <<recipient>>}, cursed \in BOOLEAN,
     dry_run \in BOOLEAN, no_backup \in BOOLEAN, no_broadcast \in BOOLEAN,
     dump \in BOOLEAN, single_key \in BOOLEAN}

\* Satpoints, prior inscriptions and utxo sources, for one file.
GateRuns ==
  {Options(Files(1), <<recipient>>, satpoint, utxo, coin_control, cursed, cursed_utxo,
           dry_run, TRUE, TRUE, FALSE, FALSE, allow_reinscribe, ignore_utxo_inscriptions,
           FALSE, Wallet(MaxUtxos), indexed) :
     satpoint \in {NoSatPoint, SomeSatPoint(SatPoint(outpoint(1), 0))},
     utxo \in {<<>>, <<outpoint(9)>>}, coin_control \in BOOLEAN, cursed \in BOOLEAN,
     cursed_utxo \in {NoOutPoint, SomeOutPoint(outpoint(1)), SomeOutPoint(outpoint(2))},
     dry_run \in BOOLEAN, allow_reinscribe \in BOOLEAN,
     ignore_utxo_inscriptions \in BOOLEAN,
     indexed \in {<<>>, <<SatPoint(outpoint(1), 0)>>, <<SatPoint(outpoint(1), 5)>>}}

\* One file whose reveal weighs about the limit, with and without a companion
\* for the wallet to sign, with and without --no-limit.
WeightRuns ==
  {Options(<<Payload(SomeLen(10), SomeLen(n))>>, <<recipient>>, NoSatPoint, <<>>, FALSE,
           cursed, NoOutPoint, dry_run, TRUE, TRUE, FALSE, FALSE, FALSE, FALSE, no_limit,
           <<Utxo(outpoint(1), 20 * 100000000), Utxo(outpoint(2), WalletValue)>>, <<>>) :
     n \in LimitBodies(NoOutPoint) \cup LimitBodies(SomeOutPoint(outpoint(2))),
     cursed \in BOOLEAN, dry_run \in BOOLEAN, no_limit \in BOOLEAN}

Runs == FlagRuns \cup GateRuns \cup WeightRuns

InitRun ==
  /\ CodecIdle
  /\ \E self \in Runs : run = Locals(self)
  /\ args = NoCall /\ planned = NoPlan /\ rpc = <<>>
  /\ ipc = "open_files"

SpecRun == InitRun /\ [][NextRun]_vars

-----------------------------------------------------------------------------
\* Properties.

CeilDiv(n, d) == (n + d - 1) \div d
Max(a, b) == IF a >= b THEN a ELSE b

RECURSIVE Concat(_)
Concat(pushes) ==
  IF pushes = <<>> THEN <<>> ELSE Head(pushes).bytes \o Concat(Tail(pushes))

\* The script of the input under construction is complete.
ScriptBuilt == (pc = "build" /\ ci = Len(Calls)) \/ pc \in {"witness", "parsed"}

\* The plan of the current input is one append_reveal_script call after `pre`.
OneEnvelope == Plan.kind = "reveal" /\ Len(Plan.envelopes) = 1 /\ Plan.post = <<>>
TheEnvelope == Plan.envelopes[1]
TheInscription == TheEnvelope.inscription

\* The witness holds the script as its second-to-last element, no annex last.
ScriptSecondToLast ==
  /\ Len(witness) >= 2
  /\ witness[Len(witness) - 1] = builder
  /\ ~(Len(witness[Len(witness)]) > 0 /\ witness[Len(witness)][1] = 80)

\* Instructions of the envelope that append_reveal_script appended after `pre`.
EnvelopeInstructions ==
  SubSeq(Instructions(builder), Len(Instructions(Build(<<>>, Plan.pre))) + 1,
         Len(Instructions(builder)))

\* Number of the envelope's instructions that precede the body tag: the
\* three-instruction header and two per non-body field.
BeforeBodyTag ==
  3 + (IF TheInscription.content_type.some THEN 2 ELSE 0)
    + (IF TheEnvelope.cursed THEN 2 ELSE 0)

BodyPushes ==
  SubSeq(EnvelopeInstructions, BeforeBodyTag + 2, Len(EnvelopeInstructions) - 1)

\* C1: an inscription encoded by append_reveal_script (cursed = false), placed
\* second-to-last in a witness and parsed, comes back as Ok([I]) with I
\* structurally equal to the encoded one: absent and empty fields stay apart,
\* bodies longer than one chunk are rejoined.
C1_RoundTrip ==
  (parsed.done /\ OneEnvelope /\ ~TheEnvelope.cursed /\ ScriptSecondToLast)
    => (parsed.err = "Ok" /\ parsed.val = <<TheInscription>>)

C1_Witness ==
  /\ parsed.done /\ OneEnvelope /\ ~TheEnvelope.cursed /\ ScriptSecondToLast
  /\ TheInscription.content_type = Some(<<>>)
  /\ TheInscription.body.some /\ Len(TheInscription.body.v) > 520
  /\ parsed.val = <<TheInscription>>

\* C4: after the empty body-tag push the encoder emits exactly ceil(L/520)
\* data pushes, none for L = 0, each of at most 520 bytes and all but the last
\* of exactly 520, whose concatenation in order is the body.
C4_BodyChunking ==
  (ScriptBuilt /\ OneEnvelope /\ TheInscription.body.some)
    => /\ EnvelopeInstructions[BeforeBodyTag + 1] = PushBytes(<<>>)
       /\ EnvelopeInstructions[Len(EnvelopeInstructions)] = Op(OP_ENDIF)
       /\ Len(BodyPushes) = CeilDiv(Len(TheInscription.body.v), 520)
       /\ \A i \in 1..Len(BodyPushes) :
            /\ BodyPushes[i].kind = "push"
            /\ Len(BodyPushes[i].bytes) <= 520
            /\ (i < Len(BodyPushes) => Len(BodyPushes[i].bytes) = 520)
       /\ Concat(BodyPushes) = TheInscription.body.v

C4_Witness ==
  /\ ScriptBuilt /\ OneEnvelope /\ TheInscription.body.some
  /\ Len(TheInscription.body.v) = 1041
  /\ Len(BodyPushes) = 3
  /\ Len(BodyPushes[3].bytes) = 1

\* The constant overhead of an envelope with a body: header (3), body tag,
\* OP_ENDIF, and a tag and a value push per non-body field.
FrameOverhead == BeforeBodyTag + 2

\* C5 as stated: an envelope with a present body of length L has
\* max(1, ceil(L/520)) + k instructions, with the one overhead k for every
\* L >= 0, L = 0 included.
C5_CountWithMax ==
  (ScriptBuilt /\ OneEnvelope /\ TheInscription.body.some)
    => Len(EnvelopeInstructions)
         = Max(1, CeilDiv(Len(TheInscription.body.v), 520)) + FrameOverhead

\* C5 amended: an envelope with a present body of length L has
\* ceil(L/520) + k instructions, k = 5 plus 2 per non-body field, for every
\* L >= 0; an empty body contributes no push.
C5_Count ==
  (ScriptBuilt /\ OneEnvelope /\ TheInscription.body.some)
    => Len(EnvelopeInstructions)
         = CeilDiv(Len(TheInscription.body.v), 520) + FrameOverhead

C5_Witness ==
  /\ ScriptBuilt /\ OneEnvelope /\ TheInscription.body = Some(<<>>)
  /\ TheInscription.content_type.some /\ ~TheEnvelope.cursed
  /\ Len(EnvelopeInstructions) = 7

\* C9: the envelope written with cursed = true (tag 0x42 after the content
\* type, before the body) is rejected with UnrecognizedEvenField whatever the
\* inscription's content type and body are.
C9_CursedRejected ==
  (parsed.done /\ OneEnvelope /\ TheEnvelope.cursed /\ ScriptSecondToLast)
    => (parsed.err = "UnrecognizedEvenField" /\ parsed.val = <<>>)

C9_Witness ==
  /\ parsed.done /\ OneEnvelope /\ TheEnvelope.cursed /\ ScriptSecondToLast
  /\ TheInscription.content_type.some /\ TheInscription.body.some
  /\ Len(TheInscription.body.v) > 520
  /\ EnvelopeInstructions[BeforeBodyTag - 1] = PushBytes(<<66>>)
  /\ parsed.err = "UnrecognizedEvenField"

\* Hand-built envelopes (kind "raw").

RemoveAt(q, k) == SubSeq(q, 1, k - 1) \o SubSeq(q, k + 1, Len(q))
TagsOf(fields) == {fields[i][1] : i \in 1..Len(fields)}

\* parse of the witness that the plan `plan` produces.
ParseOfPlan(plan) == parse(WitnessOf(plan.shape, Build(<<>>, CallsOf(plan))))

\* The envelope of the current raw plan without its k-th field.
WithoutField(k) == RawPlan(RemoveAt(Plan.fields, k), Plan.body, Plan.shape)

\* The k-th field of the current raw plan carries an unknown tag (non-empty,
\* not 0x01) that the rest of the envelope does not use, and the envelope
\* without that field parses.
UnknownField(k) ==
  /\ Plan.fields[k][1] # <<>>
  /\ Plan.fields[k][1] # <<1>>
  /\ Plan.fields[k][1] \notin TagsOf(RemoveAt(Plan.fields, k))
  /\ ParseOfPlan(WithoutField(k)).err = "Ok"

RECURSIVE Join(_)
Join(pushes) == IF pushes = <<>> THEN <<>> ELSE Head(pushes) \o Join(Tail(pushes))

\* C2: an unknown tag with one value push added to an envelope is ignored when
\* its first byte is odd (the parse succeeds with the inscription of the
\* envelope without the field) and makes the parse fail with
\* UnrecognizedEvenField when its first byte is even.
C2_ForwardCompatible ==
  (parsed.done /\ Plan.kind = "raw" /\ ScriptSecondToLast)
    => \A k \in 1..Len(Plan.fields) :
         UnknownField(k)
           => IF Plan.fields[k][1][1] % 2 = 1
              THEN /\ parsed.err = "Ok"
                   /\ parsed.val = ParseOfPlan(WithoutField(k)).val
                   /\ Len(parsed.val) = 1
                   /\ parsed.val[1].body
                        = (IF Plan.body.some THEN Some(Join(Plan.body.v)) ELSE None)
              ELSE parsed.err = "UnrecognizedEvenField" /\ parsed.val = <<>>

C2_Witness ==
  /\ parsed.done /\ Plan.kind = "raw" /\ ScriptSecondToLast
  /\ Len(Plan.fields) = 2
  /\ Plan.fields[1] = <<(<<3, 2>>), (<<97>>)>>
  /\ Plan.fields[2][1] = <<1>>
  /\ UnknownField(1)
  /\ Plan.body.some
  /\ parsed.err = "Ok"
  /\ parsed.val = <<Inscription(Some(Plan.fields[2][2]), Some(Join(Plan.body.v)))>>

\* C3: an envelope in which a non-body tag appears a second time before the
\* body parses as InvalidInscription, whatever the two values and the parity
\* of the tag.
C3_DuplicateRejected ==
  (parsed.done /\ Plan.kind = "raw" /\ ScriptSecondToLast
     /\ \E i, j \in 1..Len(Plan.fields) : i < j /\ Plan.fields[i][1] = Plan.fields[j][1])
    => (parsed.err = "InvalidInscription" /\ parsed.val = <<>>)

C3_Witness ==
  /\ parsed.done /\ Plan.kind = "raw" /\ ScriptSecondToLast
  /\ Len(Plan.fields) = 2
  /\ Plan.fields[1] = <<(<<2>>), (<<>>)>>
  /\ Plan.fields[2] = <<(<<2>>), (<<97>>)>>
  /\ Plan.body.some
  /\ parsed.err = "InvalidInscription"

\* The instruction sequence holds OP_FALSE OP_IF PUSH("ord") in a row.
ContainsHeader(ins) ==
  \E i \in 1..(Len(ins) - 2) :
    /\ ins[i] = PushBytes(<<>>)
    /\ ins[i + 1] = Op(99)
    /\ ins[i + 2] = PushBytes(<<111, 114, 100>>)

Decodable(ins) == \A i \in 1..Len(ins) : ins[i].kind # "err"

\* C8: decodable instructions before and after a well-formed envelope, neither
\* holding the three-instruction header, never hide or alter the envelope:
\* parse returns Ok([I]).
C8_NoiseTolerated ==
  (parsed.done /\ Plan.kind = "reveal" /\ Len(Plan.envelopes) = 1
     /\ ~TheEnvelope.cursed /\ ScriptSecondToLast
     /\ Decodable(Instructions(Build(<<>>, Plan.pre)))
     /\ Decodable(Instructions(Build(<<>>, Plan.post)))
     /\ ~ContainsHeader(Instructions(Build(<<>>, Plan.pre)))
     /\ ~ContainsHeader(Instructions(Build(<<>>, Plan.post))))
    => (parsed.err = "Ok" /\ parsed.val = <<TheInscription>>)

\* C10: parse returns EmptyWitness for a witness without elements and
\* KeyPathSpend for a witness of one element or of two elements whose last
\* begins with 0x50; no element is parsed as a script in these cases.
C10_WitnessFailures ==
  parsed.done
    => /\ Len(witness) = 0 => (parsed.err = "EmptyWitness" /\ parsed.element = 0)
       /\ Len(witness) = 1 => (parsed.err = "KeyPathSpend" /\ parsed.element = 0)
       /\ (Len(witness) = 2 /\ Len(witness[2]) > 0 /\ witness[2][1] = 80)
            => (parsed.err = "KeyPathSpend" /\ parsed.element = 0)

C10_Witness ==
  /\ parsed.done
  /\ Len(witness) = 2 /\ Len(witness[2]) > 0 /\ witness[2][1] = 80
  /\ witness[1] = builder
  /\ Plan.envelopes # <<>>
  /\ parsed.err = "KeyPathSpend" /\ parsed.element = 0

\* Transactions.

\* The entries of `entries` whose tx_in_index is `index`, in order.
RECURSIVE EntriesOf(_, _)
EntriesOf(entries, index) ==
  IF entries = <<>> THEN <<>>
  ELSE (IF Head(entries).tx_in_index = index THEN <<Head(entries)>> ELSE <<>>)
       \o EntriesOf(Tail(entries), index)

\* The inscriptions a plan of plain append_reveal_script calls encodes.
PlainPlan(plan) ==
  /\ plan.kind = "reveal" /\ plan.post = <<>>
  /\ plan.pre \in {<<>>, RevealPrefix}
  /\ plan.shape \in {"to_witness", "script_path"}
  /\ \A j \in 1..Len(plan.envelopes) : ~plan.envelopes[j].cursed

\* C6: from_transaction returns, input by input and envelope by envelope, the
\* entries (inscription, tx_in_index = i, tx_in_offset = j): sorted by
\* (index, offset), offsets 0..n-1 per input, every envelope of a script in
\* script order.
C6_PositionalPreservation ==
  extracted.done
    => /\ \A a, b \in 1..Len(extracted.val) :
            a < b => \/ extracted.val[a].tx_in_index < extracted.val[b].tx_in_index
                     \/ /\ extracted.val[a].tx_in_index = extracted.val[b].tx_in_index
                        /\ extracted.val[a].tx_in_offset < extracted.val[b].tx_in_offset
       /\ \A a \in 1..Len(extracted.val) :
            extracted.val[a].tx_in_index \in 0..(Len(tx) - 1)
       /\ \A i \in 1..Len(tx) :
            /\ \A j \in 1..Len(EntriesOf(extracted.val, i - 1)) :
                 EntriesOf(extracted.val, i - 1)[j].tx_in_offset = j - 1
            /\ PlainPlan(input[i])
                 => /\ Len(EntriesOf(extracted.val, i - 1)) = Len(input[i].envelopes)
                    /\ \A j \in 1..Len(input[i].envelopes) :
                         EntriesOf(extracted.val, i - 1)[j].inscription
                           = input[i].envelopes[j].inscription

C6_Witness ==
  /\ extracted.done
  /\ Len(tx) = 2
  /\ Len(input[1].envelopes) = 2 /\ PlainPlan(input[1])
  /\ Len(input[2].envelopes) = 1 /\ PlainPlan(input[2])
  /\ Len(extracted.val) = 3
  /\ extracted.val[2].tx_in_index = 0 /\ extracted.val[2].tx_in_offset = 1
  /\ extracted.val[3].tx_in_index = 1 /\ extracted.val[3].tx_in_offset = 0

ParseErrors ==
  {"EmptyWitness", "KeyPathSpend", "Script", "InvalidInscription", "UnrecognizedEvenField"}

RECURSIVE InscriptionsOf(_)
InscriptionsOf(entries) ==
  IF entries = <<>> THEN <<>>
  ELSE <<Head(entries).inscription>> \o InscriptionsOf(Tail(entries))

\* C7: from_transaction returns a list for every transaction; an input whose
\* witness fails to parse contributes no entry, and every other input's
\* inscriptions are returned under that input's own index.
C7_ErrorsInputLocal ==
  extracted.done
    => \A i \in 1..Len(tx) :
         IF results[i].err # "Ok"
         THEN results[i].err \in ParseErrors /\ EntriesOf(extracted.val, i - 1) = <<>>
         ELSE InscriptionsOf(EntriesOf(extracted.val, i - 1)) = results[i].val

C7_Witness ==
  /\ extracted.done
  /\ Len(tx) = 2
  /\ results[1].err = "Script"
  /\ results[2].err = "Ok" /\ Len(results[2].val) = 2
  /\ Len(extracted.val) = 2
  /\ extracted.val[1].tx_in_index = 1

\* Streams.

RECURSIVE EnvelopeInscriptions(_)
EnvelopeInscriptions(envelopes) ==
  IF envelopes = <<>> THEN <<>>
  ELSE <<Head(envelopes).inscription>> \o EnvelopeInscriptions(Tail(envelopes))

\* The script of the current plan is complete envelopes followed by a tail
\* that ends inside an envelope or opens none.
EndsWithoutEnvelope ==
  /\ Plan.kind = "reveal" /\ Plan.pre \in {<<>>, RevealPrefix}
  /\ \A j \in 1..Len(Plan.envelopes) : ~Plan.envelopes[j].cursed
  /\ Plan.post \in TruncatedTails \cup HeaderlessTails
  /\ ScriptSecondToLast

\* C11: parse never returns Err(NoInscription); a script without an envelope
\* header, with another protocol id, or ending inside an envelope before its
\* OP_ENDIF parses to Ok of the inscriptions of the envelopes completed before
\* the end of the stream (the empty list when there are none).
C11_NoInscriptionSuppressed ==
  parsed.done
    => /\ parsed.err # "NoInscription"
       /\ EndsWithoutEnvelope
            => (parsed.err = "Ok" /\ parsed.val = EnvelopeInscriptions(Plan.envelopes))

C11_Witness ==
  /\ parsed.done /\ EndsWithoutEnvelope
  /\ Len(Plan.envelopes) = 2
  /\ Plan.post \in TruncatedTails /\ Len(Plan.post) > 5
  /\ parsed.err = "Ok" /\ parsed.val = <<InscriptionB, InscriptionA>>

-----------------------------------------------------------------------------
\* Claims about the planner.

\* The planner is past the choice of its satpoint.
SatpointChosen == ipc \notin {"idle", "select_satpoint"}

\* The outpoints of the UTXO map that carry no prior inscription and are not
\* the cursed companion.
CardinalOutpoints ==
  {args.utxos[k].outpoint : k \in 1..Len(args.utxos)}
    \ ({args.inscriptions[k].outpoint : k \in 1..Len(args.inscriptions)}
         \cup (IF args.cursed_outpoint.some THEN {args.cursed_outpoint.v} ELSE {}))

NothingBuilt == planned.commit = NoTransaction /\ planned.reveals = <<>>

\* C12: a supplied satpoint is the plan's satpoint; without one the plan's
\* satpoint is offset 0 of an outpoint of the UTXO map that carries no prior
\* inscription and is not the cursed companion; when there is no such outpoint
\* planning fails with "wallet contains no cardinal utxos" and builds nothing.
C12_SatpointSelection ==
  SatpointChosen =>
    IF args.satpoint.some
    THEN planned.satpoint = args.satpoint.v /\ planned.err # NoCardinalUtxos
    ELSE IF CardinalOutpoints = {}
    THEN planned.done /\ planned.err = NoCardinalUtxos /\ NothingBuilt
    ELSE /\ planned.err # NoCardinalUtxos
         /\ planned.satpoint.offset = 0
         /\ planned.satpoint.outpoint \in CardinalOutpoints

\* A wallet of two utxos, the first carrying a prior inscription, the second
\* free: the plan completes on the second.
C12_Witness ==
  /\ planned.done /\ planned.err = ""
  /\ ~args.satpoint.some /\ ~args.cursed_outpoint.some
  /\ args.inscriptions = <<SatPoint(outpoint(1), 0)>>
  /\ planned.satpoint = SatPoint(outpoint(2), 0)

\* The reinscription gate has been decided for the chosen satpoint.
GateDecided ==
  /\ ipc \notin {"idle", "select_satpoint", "gate"}
  /\ planned.err # NoCardinalUtxos

\* Some prior inscription sits exactly at the chosen satpoint.
OnTheSat == \E k \in 1..Len(args.inscriptions) : args.inscriptions[k] = planned.satpoint

\* Some prior inscription sits on the chosen outpoint at another offset.
OnTheUtxo ==
  \E k \in 1..Len(args.inscriptions) :
    /\ args.inscriptions[k] # planned.satpoint
    /\ args.inscriptions[k].outpoint = planned.satpoint.outpoint

GateFailed == planned.done /\ planned.err \in {SatAlreadyInscribed, UtxoAlreadyInscribed}

\* C13: for the chosen satpoint the gate fails exactly when a prior
\* inscription sits at the satpoint and allow_reinscribe is false, or a prior
\* inscription sits on its outpoint at another offset and
\* ignore_utxo_inscriptions is false; neither flag excuses the other case, and
\* a failure of the gate builds nothing.
C13_ReinscriptionGate ==
  GateDecided =>
    /\ GateFailed <=> \/ OnTheSat /\ ~args.allow_reinscribe
                      \/ OnTheUtxo /\ ~args.ignore_utxo_inscriptions
    /\ planned.err = SatAlreadyInscribed => OnTheSat /\ ~args.allow_reinscribe
    /\ planned.err = UtxoAlreadyInscribed => OnTheUtxo /\ ~args.ignore_utxo_inscriptions
    /\ GateFailed => NothingBuilt

\* allow_reinscribe is set and the sat is inscribed, yet the gate fails on the
\* other inscription of the same utxo.
C13_Witness ==
  /\ GateDecided /\ planned.err = UtxoAlreadyInscribed
  /\ args.allow_reinscribe /\ ~args.ignore_utxo_inscriptions
  /\ OnTheSat /\ OnTheUtxo

PlanSucceeded == planned.done /\ planned.err = ""

\* The script-path input of reveal i: input 0, or input 1 behind the cursed
\* companion.
ScriptPathInput(i) ==
  planned.reveals[i].tx.input[(IF args.cursed_outpoint.some THEN 1 ELSE 0) + 1]

\* The P2TR script of the taproot output whose single leaf is the reveal
\* script of payload i.
LeafAddress(i) ==
  P2TR(output_key(XOnlyPublicKey(KeyPairOf(i, args.single_key)),
                  RevealScript(XOnlyPublicKey(KeyPairOf(i, args.single_key)),
                               args.inscription[i], args.cursed66)))

\* C15: in a successful plan there is one reveal per payload; the script-path
\* input of reveal i spends output first_vout + i of the commit, that output
\* exists, its script is the P2TR script of payload i's reveal-script leaf,
\* and the P2TR address of recovery key pair i is that same script.
C15_CommitRevealLinkage ==
  PlanSucceeded =>
    /\ Len(planned.reveals) = Len(args.inscription)
    /\ \A i \in 1..Len(planned.reveals) :
         /\ ScriptPathInput(i).previous_output
              = OutPoint(CommitTxid, planned.first_vout + (i - 1))
         /\ planned.first_vout >= 0
         /\ planned.first_vout + (i - 1) < Len(planned.commit.output)
         /\ planned.commit.output[planned.first_vout + i].script_pubkey = LeafAddress(i)
         /\ P2TR(x_only_public_key(planned.reveals[i].recovery_key_pair))
              = planned.commit.output[planned.first_vout + i].script_pubkey

\* Two different payloads under fresh keys, a cursed companion, and a satpoint
\* inside its utxo, so that the commit starts with an alignment output.
C15_Witness ==
  /\ PlanSucceeded
  /\ Len(planned.reveals) = 2 /\ args.inscription[1] # args.inscription[2]
  /\ ~args.single_key /\ args.cursed_outpoint.some
  /\ planned.first_vout = 1
  /\ ScriptPathInput(2).previous_output = OutPoint(CommitTxid, 2)

\* The postage output of reveal i: output 0, or output 1 behind the output of
\* the cursed companion.
PostageOutput(i) ==
  planned.reveals[i].tx.output[(IF args.cursed_outpoint.some THEN 1 ELSE 0) + 1]

\* The commit is built and the planner is at, or past, reveal i.
RevealTried(i) ==
  /\ ipc \in {"remake_reveals", "done", "returned"}
  /\ planned.commit # NoTransaction
  /\ i \in 1..Len(planned.reveals)

\* The value of the commit output that reveal i spends.
CommitValue(i) == planned.commit.output[planned.first_vout + i].value

\* Script::dust_value of the destination of reveal i, from the relay fee of
\* 3 sat per byte: 98 bytes for a P2WPKH output and its spend, 110 for P2TR,
\* 182 for P2PKH.
DustThreshold(i) ==
  With(args.destinations[((i - 1) % Len(args.destinations)) + 1], LAMBDA d :
    CASE d.kind = "p2wpkh" -> 3 * 98
      [] d.kind = "p2tr" -> 3 * 110
      [] OTHER -> 3 * 182)

\* C16: the postage output of every reveal of a successful plan is worth at
\* least the dust threshold of its script; a reveal whose fee exceeds the
\* value of its commit output fails the plan with "reveal transaction output
\* value insufficient to pay transaction fee", and one whose postage output
\* would be below the threshold after the fee fails it with "reveal
\* transaction output would be dust".
C16_DustInvariant ==
  /\ PlanSucceeded =>
       \A i \in 1..Len(planned.reveals) : PostageOutput(i).value >= DustThreshold(i)
  /\ \A i \in 1..Len(planned.reveals) :
       RevealTried(i) =>
         /\ CommitValue(i) < planned.reveals[i].fee
              => planned.done /\ planned.err = FeeUnderflow
         /\ (/\ CommitValue(i) >= planned.reveals[i].fee
             /\ CommitValue(i) - planned.reveals[i].fee < DustThreshold(i))
              => planned.done /\ planned.err = OutputDust

\* A plan whose postage is one satoshi below the dust threshold of a P2PKH
\* destination fails as dust.
C16_Witness ==
  /\ RevealTried(1) /\ planned.done /\ planned.err = OutputDust
  /\ planned.mode = "exact"
  /\ args.destinations = <<P2PKH(4)>> /\ args.postage = DustThreshold(1) - 1
  /\ CommitValue(1) - planned.reveals[1].fee = DustThreshold(1) - 1

\* A plan with the postage exactly at the threshold succeeds.
C16_WitnessAtThreshold ==
  /\ PlanSucceeded /\ planned.mode = "exact"
  /\ args.postage = DustThreshold(1) /\ PostageOutput(1).value = DustThreshold(1)

\* A commit output that does not cover the fee.
C16_WitnessUnderflow ==
  /\ RevealTried(1) /\ planned.done /\ planned.err = FeeUnderflow
  /\ CommitValue(1) < planned.reveals[1].fee

\* The fee reveal i pays: what its inputs are worth less what its outputs are
\* worth (the companion's value enters and leaves unchanged).
ActualRevealFee(i) == CommitValue(i) - PostageOutput(i).value

\* The weight of reveal i as the plan returns it.
MeasuredWeight(i) == weight(planned.reveals[i].tx)

Abs(n) == IF n < 0 THEN -n ELSE n

\* actual is within one satoshi of the rate (sat per virtual byte, four weight
\* units each) times the weight wu, or of FeeRate::fee of that weight.
WithinOneSat(actual, rate, wu) ==
  \/ Abs(4 * rate.den * actual - rate.num * wu) <= 4 * rate.den
  \/ Abs(actual - fee(rate, wu)) <= 1

\* C17, for the reveals: in a successful plan the fee each reveal pays is
\* within one satoshi of the reveal fee rate times its measured weight.
C17_FeeCloseness ==
  PlanSucceeded =>
    \A i \in 1..Len(planned.reveals) :
      WithinOneSat(ActualRevealFee(i), args.reveal_fee_rate, MeasuredWeight(i))

\* The same without a cursed companion, where the estimate and the reveal
\* carry the same witness.
C17_FeeClosenessPlain ==
  (PlanSucceeded /\ ~args.cursed_outpoint.some) => C17_FeeCloseness

\* The fee a reveal pays is FeeRate::fee of the weight of the estimate plus
\* one unit: a whole virtual byte more than the reveal weighs when its weight
\* is a multiple of four.
C17_Overpaid ==
  /\ PlanSucceeded /\ ~args.cursed_outpoint.some
  /\ args.inscription = <<Payload(NoLen, NoLen)>> /\ args.destinations = <<recipient>>
  /\ args.reveal_fee_rate = FeeRate(2, 1) /\ args.postage = DEFAULT_TARGET_POSTAGE
  /\ MeasuredWeight(1) = 472 /\ ActualRevealFee(1) = 238

\* The fee estimated for payload i before the commit was built: its funding
\* requirement less the postage.
EstimatedFee(i) == planned.reveal_fees[i] - args.postage

\* Reveal i was rebuilt against the commit and its fee computed.
RevealRebuilt(i) == RevealTried(i) /\ planned.reveals[i].err # Panic

\* The weight the fee is computed on: the reveal with a 64-byte signature on
\* its script-path input and, when there is a companion, a single 64-byte
\* element on the companion's input (66 bytes where the planned reveal has one
\* empty witness, less the hash type byte of the planned signature).
DummyWeight(i) == MeasuredWeight(i) + (IF args.cursed_outpoint.some THEN 66 - 1 - 1 ELSE 0)

\* C18: the fee deducted from reveal i when it is rebuilt against the commit
\* is the fee estimated for payload i, the reveal fee rate applied to the
\* dummy-witness weight plus one unit; in a successful plan the postage output
\* of reveal i is worth commit output first_vout + i less that fee, which is
\* the requested postage when the commit output is worth fee plus postage.
C18_RevealPaysEstimate ==
  /\ \A i \in 1..Len(planned.reveals) :
       RevealRebuilt(i) => planned.reveals[i].fee = EstimatedFee(i)
  /\ PlanSucceeded =>
       \A i \in 1..Len(planned.reveals) :
         /\ EstimatedFee(i) = fee(args.reveal_fee_rate, DummyWeight(i) + 1)
         /\ PostageOutput(i).value = CommitValue(i) - EstimatedFee(i)
         /\ CommitValue(i) = planned.reveal_fees[i]
              => PostageOutput(i).value = args.postage

\* Two payloads of different sizes behind a cursed companion at 3.3 sat/vB,
\* each commit output funded with fee plus postage.
C18_Witness ==
  /\ PlanSucceeded /\ Len(planned.reveals) = 2
  /\ args.cursed_outpoint.some /\ args.reveal_fee_rate = FeeRate(33, 10)
  /\ EstimatedFee(1) # EstimatedFee(2)
  /\ \A i \in 1..2 : /\ CommitValue(i) = planned.reveal_fees[i]
                     /\ PostageOutput(i).value = args.postage
                     /\ args.postage = dust_value(recipient)

\* Reveal i passed the fee and dust checks and was signed and weighed.
RevealWeighed(i) ==
  RevealTried(i) /\ planned.reveals[i].err \in {"", RevealOverweight}

\* C19: a reveal that passed the earlier checks fails the plan exactly when
\* the bypass is unset and the reveal weighs strictly more than 400000 weight
\* units, with the error that names MAX_STANDARD_TX_WEIGHT; a reveal of
\* exactly 400000 units is accepted, and with the bypass set no plan fails
\* over a reveal's weight.
C19_WeightLimit ==
  /\ \A i \in 1..Len(planned.reveals) :
       RevealWeighed(i) =>
         /\ planned.reveals[i].err = RevealOverweight
              <=> (~args.no_limit /\ MeasuredWeight(i) > 400000)
         /\ planned.reveals[i].err = RevealOverweight
              => planned.done /\ planned.err = RevealOverweight
  /\ planned.err = RevealOverweight
       => /\ ~args.no_limit
          /\ \E i \in 1..Len(planned.reveals) : MeasuredWeight(i) > 400000

\* A reveal of exactly 400000 weight units is accepted with the limit on.
C19_Witness ==
  /\ PlanSucceeded /\ ~args.no_limit /\ MeasuredWeight(1) = 400000

\* One unit more is rejected, and accepted under the bypass.
C19_WitnessOver ==
  /\ planned.done /\ RevealWeighed(1) /\ MeasuredWeight(1) = 400001
  /\ planned.err = (IF args.no_limit THEN "" ELSE RevealOverweight)

\* tests::inscribe_over_max_standard_tx_weight: 402799 weight units.
C19_WitnessTest ==
  /\ planned.done /\ planned.err = RevealOverweight /\ MeasuredWeight(1) = 402799
  /\ ~args.cursed_outpoint.some

-----------------------------------------------------------------------------
\* Claims about the inscribe command.

\* The operations on the node and the wallet: fetching a raw transaction,
\* requesting a change address, fetching the companion's transaction, signing,
\* importing, broadcasting.
NodeOrWalletOps ==
  {"get_raw_transaction", "get_change_address", "index.get_transaction",
   "sign_raw_transaction_with_wallet", "import_descriptors", "send_raw_transaction"}

IssuedOps == {rpc[k].op : k \in 1..Len(rpc)}

\* run has returned the error of the reinscription gate.
FailedAtGate ==
  ipc = "exit" /\ run.result \in {SatAlreadyInscribed, UtxoAlreadyInscribed}

\* C14: when the inscribe command fails at the reinscription gate, no node or
\* wallet operation has been issued before the failure is returned.
C14_GateBeforeOperations ==
  FailedAtGate => IssuedOps \cap NodeOrWalletOps = {}

\* The least the command has done when the gate fails: the index is updated
\* and read and two change addresses are requested from the wallet.
C14_OperationsBeforeGate ==
  FailedAtGate =>
    /\ {"index.update", "index.get_inscriptions", "get_change_address"} \subseteq IssuedOps
    /\ Len(SelectSeq(rpc, LAMBDA o : o.op = "get_change_address")) >= 2
    /\ IssuedOps \cap {"sign_raw_transaction_with_wallet", "import_descriptors",
                       "send_raw_transaction"} = {}

\* A gate failure after a --utxo fetch and the fetch of the companion's
\* transaction.
C14_FetchesBeforeGate ==
  /\ FailedAtGate
  /\ {"get_raw_transaction", "index.get_transaction"} \subseteq IssuedOps

\* C20: under --dry-run the command signs no transaction, imports no recovery
\* descriptor and broadcasts nothing.
C20_DryRunSignsNothing ==
  run.self.dry_run =>
    IssuedOps \cap {"sign_raw_transaction_with_wallet", "import_descriptors",
                    "send_raw_transaction"} = {}

\* What holds instead: under --dry-run the wallet signs the commit once a plan
\* exists, and nothing else is signed, imported or sent.
C20_DryRunSignsCommit ==
  (run.self.dry_run /\ ipc = "exit") =>
    /\ SelectSeq(rpc, LAMBDA o : o.op \in {"sign_raw_transaction_with_wallet",
                                            "import_descriptors", "send_raw_transaction"})
         = IF planned.done /\ planned.err = ""
           THEN <<Issued("sign_raw_transaction_with_wallet", 0)>> ELSE <<>>
    /\ run.result = "Ok" => run.printed = "Output"

\* A dry run that printed its plan after the wallet signed the commit.
C20_DryRunSigned ==
  /\ run.self.dry_run /\ ipc = "exit" /\ run.result = "Ok" /\ run.printed = "Output"
  /\ Issued("sign_raw_transaction_with_wallet", 0) \in {rpc[k] : k \in 1..Len(rpc)}

\* The reveals handed to send_raw_transaction, in the order of the calls.
RevealSends == SelectSeq(rpc, LAMBDA o : o.op = "send_raw_transaction" /\ o.n > 0)

\* Every signed reveal was handed to the node once, in payload order.
EveryRevealSent ==
  /\ RevealSends = [k \in 1..Len(run.signed_reveal_txs) |-> Issued("send_raw_transaction", k)]
  /\ Len(run.reveals) + Len(run.failed_reveals) = Len(run.signed_reveal_txs)

\* Every signed reveal was handed to the node once, in payload order, and the
\* failures were recorded.
AllRevealsAttempted ==
  /\ EveryRevealSent
  /\ Len(run.lines) = Len(run.failed_reveals)

\* C21: once the commit has been broadcast, the command does not return before
\* every signed reveal was handed to the node exactly once, in payload order,
\* whatever the earlier reveals did, and before the failures were recorded.
C21_RevealsAllAttempted ==
  (run.commit_sent /\ ipc = "exit") => AllRevealsAttempted

\* The loop itself: once the new client exists, a refused reveal stops nothing.
C21_LoopAttemptsAll ==
  (run.commit_sent /\ ipc = "exit" /\ run.result # ReconnectFailed) => EveryRevealSent

\* The first of two reveals was refused and the second was still sent.
C21_FailedThenSent ==
  /\ ipc = "exit" /\ Len(run.failed_reveals) = 1 /\ Len(run.reveals) = 1
  /\ rpc[Len(rpc)] = Issued("send_raw_transaction", 2)
  /\ rpc[Len(rpc) - 1] = Issued("send_raw_transaction", 1)
  /\ run.lines = run.failed_reveals

\* The commit is out, the client could not be made again, no reveal was tried.
C21_CommitSentNoReveal ==
  /\ ipc = "exit" /\ run.commit_sent /\ run.result = ReconnectFailed
  /\ Len(run.signed_reveal_txs) > 0 /\ RevealSends = <<>>

\* The reveals the node refused, in payload order, once the loop is over.
Refused ==
  SelectSeq([k \in 1..Len(run.signed_reveal_txs) |-> k],
            LAMBDA k : \A j \in 1..Len(run.reveals) : run.reveals[j] # k)

\* The lines of the failed-reveals file are the submitted bytes of the refused
\* reveals, one line each.
SubmittedBytesWritten ==
  run.lines = [k \in 1..Len(Refused) |-> run.signed_reveal_txs[Refused[k]].hex]

\* C22: when the command returns after the reveals were handed to the node,
\* the failed-reveals file holds, one line per refused reveal, the wallet-signed
\* bytes that were submitted, with and without a cursed companion.
C22_FailedRevealsSigned ==
  (ipc = "exit" /\ run.commit_sent /\ run.result = "Ok") => SubmittedBytesWritten

\* Without a companion the planner's reveal is already what the wallet returns.
C22_FailedRevealsSignedNormal ==
  (ipc = "exit" /\ run.commit_sent /\ run.result = "Ok" /\ ~run.self.cursed)
    => SubmittedBytesWritten

\* A refused cursed reveal is written without the wallet's signature on the
\* companion input.
C22_UnsignedWritten ==
  /\ ipc = "exit" /\ run.result = "Ok" /\ run.self.cursed /\ run.lines # <<>>
  /\ run.lines[1].input[1].witness = <<>>
  /\ run.signed_reveal_txs[Refused[1]].hex.input[1].witness = WalletWitness

\* The wallet holds a descriptor whose P2TR address is the commit output that
\* reveal i spends.
RecoveryImported(i) ==
  \E j \in 1..Len(run.imported) :
    P2TR(x_only_public_key(run.imported[j]))
      = planned.commit.output[RevealVout(planned.first_vout, i) + 1].script_pubkey

\* C23: when the command reaches the broadcast with backups enabled, a recovery
\* descriptor for the commit output of every reveal has been imported, for every
\* batch size, with and without single_key.
C23_RecoveryForEveryReveal ==
  (ipc = "broadcast" /\ ~run.self.no_backup)
    => \A i \in 1..Len(planned.reveals) : RecoveryImported(i)

\* With one key pair per payload every reveal has its descriptor.
C23_RecoveryWithoutSingleKey ==
  (ipc = "broadcast" /\ ~run.self.no_backup /\ ~run.self.single_key)
    => \A i \in 1..Len(planned.reveals) : RecoveryImported(i)

\* With single_key and two payloads only the first reveal has its descriptor.
C23_SecondRevealNotRecoverable ==
  /\ ipc = "broadcast" /\ ~run.self.no_backup /\ run.self.single_key
  /\ Len(planned.reveals) = 2 /\ Len(run.imported) = 1
  /\ RecoveryImported(1) /\ ~RecoveryImported(2)

\* C24: for a witness of at least three elements that ends in an annex, the
\* element handed to the envelope parser precedes the annex; for a witness of at
\* least two elements without an annex it is the second-to-last element.
C24_ScriptSelection ==
  parsed.done =>
    /\ (Len(witness) >= 3 /\ Annex(witness)) => parsed.element \in 1..(Len(witness) - 1)
    /\ (Len(witness) >= 2 /\ ~Annex(witness)) => parsed.element = Len(witness) - 1

\* Without an annex the second-to-last element is parsed.
C24_WithoutAnnex ==
  (parsed.done /\ Len(witness) >= 2 /\ ~Annex(witness)) => parsed.element = Len(witness) - 1

\* [signature, script, control block, annex]: the annex is parsed as the script
\* and the envelope of the script is not found.
C24_AnnexParsed ==
  /\ parsed.done /\ Len(witness) = 4 /\ Annex(witness)
  /\ Plan.kind = "reveal" /\ Len(Plan.envelopes) = 1
  /\ parsed.element = Len(witness) /\ witness[parsed.element] = AnnexElement
  /\ parsed.err = "Ok" /\ parsed.val = <<>>

\* What each envelope of a plan of MixedPlans yields, in script order.
EnvelopeOutcomes(p) ==
  (IF p.pre = DuplicateEnvelope THEN <<"InvalidInscription">> ELSE <<>>)
    \o [k \in 1..Len(p.envelopes) |->
          IF p.envelopes[k].cursed THEN "UnrecognizedEvenField" ELSE "Ok"]
    \o (IF p.post = DuplicateEnvelope THEN <<"InvalidInscription">>
        ELSE IF p.post = DanglingPush THEN <<"Script">> ELSE <<>>)

\* The first outcome that is an error, "Ok" when none is.
FirstError(outcomes) ==
  IF \A k \in 1..Len(outcomes) : outcomes[k] = "Ok" THEN "Ok"
  ELSE outcomes[CHOOSE k \in 1..Len(outcomes) :
                  /\ outcomes[k] # "Ok"
                  /\ \A j \in 1..(k - 1) : outcomes[j] = "Ok"]

\* C25: when an envelope of the parsed script fails with InvalidInscription,
\* UnrecognizedEvenField or Script, parse returns the first such error in script
\* order and none of the inscriptions of the script, and from_transaction has no
\* entry for that input.
C25_AllOrNothing ==
  /\ (parsed.done /\ FirstError(EnvelopeOutcomes(Plan)) # "Ok")
       => (parsed.err = FirstError(EnvelopeOutcomes(Plan)) /\ parsed.val = <<>>)
  /\ extracted.done =>
       \A k \in 1..Len(input) :
         FirstError(EnvelopeOutcomes(input[k])) # "Ok" => EntriesOf(extracted.val, k - 1) = <<>>

\* An envelope that parses, one that fails and one that fails differently: the
\* first error is returned, and the other input keeps its entry.
C25_Witness ==
  /\ extracted.done /\ Len(input) = 2
  /\ EnvelopeOutcomes(input[1]) = <<"Ok", "UnrecognizedEvenField", "InvalidInscription">>
  /\ results[1].err = "UnrecognizedEvenField" /\ results[1].val = <<>>
  /\ EntriesOf(extracted.val, 0) = <<>> /\ Len(EntriesOf(extracted.val, 1)) = 1

\* A failing envelope before an envelope that parses.
C25_WitnessErrorFirst ==
  /\ parsed.done
  /\ EnvelopeOutcomes(Plan) = <<"InvalidInscription", "Ok">>
  /\ parsed.err = "InvalidInscription" /\ parsed.val = <<>>

\* Every call of parse_one_inscription made so far moved the iterator forward
\* or returned NoInscription.
EveryCallConsumes ==
  \A k \in 1..Len(scan.calls) :
    scan.calls[k].to > scan.calls[k].from \/ scan.calls[k].err = "NoInscription"

\* The results are no more than the items of the instruction iterator.
ResultsBounded == Len(scan.inscriptions) <= Len(scan.ins)

\* The loop run call by call returns what parse_inscriptions returns.
ScanIsParseInscriptions ==
  pc = "scanned" => scan.inscriptions = parse_inscriptions(scan.ins, 0)

\* C26: parse_inscriptions finishes on every instruction stream; every call of
\* parse_one_inscription consumes at least one instruction or returns
\* NoInscription, and the results are no more than the instructions.
C26_ParsingTerminates ==
  /\ <>(pc = "scanned")
  /\ [](EveryCallConsumes /\ ResultsBounded)

\* A stream of three results, the last an undecodable push, scanned to its end.
C26_Witness ==
  /\ pc = "scanned" /\ Len(scan.inscriptions) = 3
  /\ scan.inscriptions[3].err = "Script"
  /\ scan.calls[Len(scan.calls)].err = "NoInscription"
  /\ scan.pos = Len(scan.ins)

\* A header repeated inside an envelope: the call fails and the loop goes on.
C26_WitnessRepeatedHeader ==
  /\ pc = "scanned" /\ Plan \in RepeatedHeaderPlans
  /\ Plan.pre = Header \o Header
  /\ Len(scan.inscriptions) >= 2 /\ scan.inscriptions[1].err = "InvalidInscription"

\* The commit was handed to send_raw_transaction.
CommitTried ==
  \E k \in 1..Len(rpc) : rpc[k] = Issued("send_raw_transaction", 0)

\* C27: a reveal is handed to the node only after the broadcast of the commit
\* returned success; when the broadcast of the commit fails the command returns
\* an error and no reveal is sent.
C27_CommitBeforeReveals ==
  /\ RevealSends # <<>> =>
       /\ run.commit_sent
       /\ \A k \in 1..Len(rpc) :
            (rpc[k].op = "send_raw_transaction" /\ rpc[k].n > 0)
              => \E j \in 1..(k - 1) : rpc[j] = Issued("send_raw_transaction", 0)
  /\ (CommitTried /\ ~run.commit_sent) =>
       (ipc = "exit" /\ run.result = SendCommitFailed /\ RevealSends = <<>>)

\* Two reveals were signed, the node refused the commit, the command returned
\* the error without sending a reveal.
C27_Witness ==
  /\ ipc = "exit" /\ run.result = SendCommitFailed
  /\ Len(run.signed_reveal_txs) = 2 /\ CommitTried /\ RevealSends = <<>>
  /\ rpc[Len(rpc)] = Issued("send_raw_transaction", 0)

\* The commit was accepted and both reveals followed it.
C27_WitnessSent ==
  /\ ipc = "exit" /\ run.commit_sent /\ Len(RevealSends) = 2

\* A transaction, commit or reveal, was handed to send_raw_transaction.
AnythingSent ==
  \E k \in 1..Len(rpc) : rpc[k].op = "send_raw_transaction"

\* C28: when the commit is handed to the node, every retained recovery key has
\* been imported (unless no_backup is set) and the failed-reveals file has been
\* opened; when an import fails or the file cannot be opened the command returns
\* an error and neither the commit nor a reveal is sent.
C28_BackupBeforeBroadcast ==
  /\ (CommitTried \/ ipc = "send_commit") =>
       /\ ~run.self.no_backup =>
            (run.recovery_key_pairs # <<>> /\ run.imported = run.recovery_key_pairs)
       /\ run.file \in {"open", "removed", "written"}
  /\ run.result \in {ImportFailed, CannotWrite} => (ipc = "exit" /\ ~AnythingSent)
  /\ (run.file = "absent" \/ (~run.self.no_backup /\ run.imported # run.recovery_key_pairs))
       => ~AnythingSent

\* Two descriptors were imported and the file was opened, then the commit went
\* out.
C28_Witness ==
  /\ CommitTried /\ ~run.self.no_backup /\ Len(run.imported) = 2
  /\ run.imported = run.recovery_key_pairs /\ run.file = "open"

\* The second import failed: nothing was sent.
C28_WitnessImportFailed ==
  /\ ipc = "exit" /\ run.result = ImportFailed /\ Len(run.imported) = 1
  /\ Len(run.recovery_key_pairs) = 2 /\ ~AnythingSent

\* The file could not be opened: nothing was sent.
C28_WitnessCannotWrite ==
  /\ ipc = "exit" /\ run.result = CannotWrite /\ run.file = "absent"
  /\ Len(run.signed_reveal_txs) > 0 /\ ~AnythingSent

\* The outpoints a transaction spends.
Spent(transaction) ==
  {transaction.input[k].previous_output : k \in 1..Len(transaction.input)}

\* The planner was called with a cursed companion.
WithCompanion == args # NoCall /\ args.cursed_outpoint.some

\* The planner chose the satpoint itself.
SatpointAutoSelected ==
  /\ args # NoCall /\ ~args.satpoint.some
  /\ ipc \notin {"select_satpoint"} /\ planned # NoPlan /\ planned.err # NoCardinalUtxos

\* run chose the companion itself.
CompanionAutoSelected ==
  run.self.cursed /\ ~run.self.cursed_utxo.some /\ run.cursed_outpoint.some

\* C29: the cursed companion is not among the utxos offered to the commit
\* builder; a satpoint the planner selects is not on the companion; a companion
\* run selects is neither the outpoint of a supplied satpoint nor an outpoint
\* with a prior inscription; and when at most one of the two is supplied, the
\* commit and a reveal of a successful plan spend no outpoint in common.
C29_CompanionIsolation ==
  /\ WithCompanion =>
       /\ \A k \in 1..Len(utxos_clone(args)) :
            utxos_clone(args)[k].outpoint # args.cursed_outpoint.v
       /\ args.cursed_outpoint.v \notin Spent(planned.commit)
  /\ (WithCompanion /\ SatpointAutoSelected) =>
       planned.satpoint.outpoint # args.cursed_outpoint.v
  /\ CompanionAutoSelected =>
       /\ run.self.satpoint.some => run.cursed_outpoint.v # run.self.satpoint.v.outpoint
       /\ run.cursed_outpoint.v \notin inscribed_utxos(run.inscriptions)
  /\ (PlanSucceeded /\ ~(run.self.satpoint.some /\ run.self.cursed_utxo.some)) =>
       \A i \in 1..Len(planned.reveals) :
         Spent(planned.commit) \cap Spent(planned.reveals[i].tx) = {}

\* Both selected by the program: the reveal spends the companion and the commit
\* output, the commit spends the other utxo.
C29_Witness ==
  /\ PlanSucceeded /\ CompanionAutoSelected /\ SatpointAutoSelected
  /\ Len(planned.reveals) = 1
  /\ Spent(planned.reveals[1].tx)
       = {run.cursed_outpoint.v, OutPoint(CommitTxid, planned.first_vout)}
  /\ planned.satpoint.outpoint \in Spent(planned.commit)

\* The satpoint supplied and a prior inscription on another sat of its utxo:
\* the companion selected is the other utxo.
C29_WitnessSatpointSupplied ==
  /\ PlanSucceeded /\ CompanionAutoSelected /\ run.self.satpoint.some
  /\ run.inscriptions # <<>>
  /\ run.cursed_outpoint.v = outpoint(2)

\* The companion supplied, the satpoint selected around it.
C29_WitnessCompanionSupplied ==
  /\ PlanSucceeded /\ run.self.cursed /\ run.self.cursed_utxo = SomeOutPoint(outpoint(1))
  /\ SatpointAutoSelected /\ planned.satpoint.outpoint = outpoint(2)

-----------------------------------------------------------------------------
\* C30: every reveal of a successful plan, read back with from_transaction,
\* gives the empty list under cursed66 and otherwise exactly one entry: the
\* payload of that reveal, at the script-path input (0, or 1 behind a
\* companion), at offset 0; the element parsed is the reveal script, the
\* second of [signature, reveal_script, control_block].
RevealRead == planned.done /\ planned.err = "" /\ ipc = "done" /\ extracted.done
C30_PlanToExtractRoundTrip ==
  RevealRead =>
    /\ Len(tx[reveal_vout_postage(args) + 1]) = 3
    /\ parse(tx[reveal_vout_postage(args) + 1]).element = 2
    /\ parse(tx[reveal_vout_postage(args) + 1]).err
         = (IF args.cursed66 THEN "UnrecognizedEvenField" ELSE "Ok")
    /\ extracted.val =
         IF args.cursed66 THEN <<>>
         ELSE <<[inscription |-> InscriptionOf(args.inscription[idx]),
                 tx_in_index |-> reveal_vout_postage(args), tx_in_offset |-> 0]>>

\* The second reveal of a batch behind a companion, a body of two chunks.
C30_Witness ==
  /\ RevealRead /\ ~args.cursed66 /\ args.cursed_outpoint.some /\ idx = 2
  /\ args.inscription[idx] = Payload(SomeLen(10), SomeLen(ChunkSize + 1))
  /\ Len(extracted.val) = 1 /\ extracted.val[1].tx_in_index = 1
  /\ Len(extracted.val[1].inscription.body.v) = ChunkSize + 1
C30_WitnessNoCompanion ==
  /\ RevealRead /\ ~args.cursed66 /\ ~args.cursed_outpoint.some
  /\ Len(extracted.val) = 1 /\ extracted.val[1].tx_in_index = 0
  /\ extracted.val[1].inscription = Inscription(None, None)
C30_WitnessCursed66 ==
  /\ RevealRead /\ args.cursed66 /\ extracted.val = <<>>
  /\ args.inscription[idx] = TextPlainOrd
\* The lengths the planner computes are the lengths of the bytes.
C30_LengthsAgree ==
  RevealRead =>
    \A k \in 1..Len(tx) : \A e \in 1..Len(tx[k]) :
      Len(tx[k][e]) = planned.reveals[idx].tx.input[k].witness[e].len

====
